---- MODULE Spec2Model ----
(***************************************************************************)
(* n2n-admin backend: the login throttle, the GeoIP cache, the relay table *)
(* and the node listing of backend/main.go as state machines.              *)
(*                                                                         *)
(* Time is an integer clock `now`.  Each specification fixes the length of *)
(* one tick for the component it runs: 5 minutes for the login throttle,   *)
(* 20 seconds for the relay table, one TTL-fraction for the GeoIP cache.   *)
(* The zero value of Go's time.Time is ZeroTime, strictly before any       *)
(* reading of the clock.  A function that takes a mutex runs in one tick.  *)
(***************************************************************************)
EXTENDS Integers, Sequences, FiniteSets, TLC

VARIABLES
    now,            \* the wall clock, in ticks
    loginAttempts,  \* main.go:86  map key -> LoginAttempt
    callsSinceOk,   \* per key: RecordFailure calls since the last RecordSuccess
    callsSinceNew,  \* per key: RecordFailure calls since its record was created
    reqPc,          \* per login request: where the handler stands
    reqArg,         \* per login request: client address, username, password right
    IPCacheSize,    \* appConfig.IPCacheSize
    ipCache,        \* main.go:60  map address -> IPCacheEntry
    geo,            \* per getIPLocation call: where it stands and what it returned
    lastOkAt,       \* per address: clock of the last lookup that succeeded
    cacheMutex,     \* main.go:61  who holds the cache's mutex, "free" if nobody
    relayMap,       \* main.go:58  map "src->dst" -> RelayEvent
    nodes,          \* the persisted node inventory, in the order db.Find returns it
    resp,           \* the response a relay or node handler is writing out
    qPc,            \* the management query: where GetEdgeInfo stands
    qIn,            \* the datagrams of the daemon's answer not yet delivered
    qBuf,           \* Query's fullResp
    qRet,           \* what GetEdgeInfo returned
    qFault,         \* the transport fault the call met, "none" if none
    qLastRead,      \* when the last read returned a datagram, counted from the write
    qMacs,          \* what GetOnlineMacs returned
    sortPc,         \* the sort of getNodes on its own: "input" or "sorted"
    sortRes,        \* the slice res that sort.Slice is given and leaves
    tailer,         \* startLogAnalyzer: where the loop stands and the line it read
    loginMutex,     \* main.go:87  who holds the login table's mutex
    relayMutex,     \* main.go:59  who holds the relay table's mutex
    gor             \* per goroutine: the function it runs and where it stands

loginVars == <<loginAttempts, callsSinceOk, callsSinceNew>>
reqVars == <<reqPc, reqArg>>
geoVars == <<IPCacheSize, ipCache, geo, lastOkAt, cacheMutex>>
relayVars == <<relayMap, nodes, resp>>
mgmtVars == <<qPc, qIn, qBuf, qRet, qFault, qLastRead, qMacs>>
sortVars == <<sortPc, sortRes>>
tailVars == <<tailer>>
lockVars == <<loginMutex, relayMutex, gor>>
vars == <<now, loginVars, reqVars, geoVars, relayVars, mgmtVars, sortVars, tailVars, lockVars>>

ZeroTime == 0

\* ------------------------------------------------------------ login throttle
\* One tick is 5 minutes.
maxLoginAttempts == 5
lockDuration == 3
loginRecordExpiry == 12
overflowStaleAfter == 1
\* The cap on tracked keys, scaled down from 10000.
maxLoginRecords == 2

MaxTime == 4
MaxFailCount == 6
MaxCalls == 6

ClientIPs == {"ip1"}
Usernames == {"admin", "bob"}
UserKey(username) == "user:" \o username
LoginKeys == ClientIPs \cup {UserKey(u) : u \in Usernames}

ZeroAttempt == [FailCount |-> 0, LockUntil |-> ZeroTime, LastFail |-> ZeroTime]

Drop(tbl, keys) == [k \in DOMAIN tbl \ keys |-> tbl[k]]
Put(tbl, key, val) == [k \in DOMAIN tbl \cup {key} |-> IF k = key THEN val ELSE tbl[k]]

\* cleanExpiredLoginAttempts with the 5 minutes of the overflow handling
cleanExpiredAfterFiveMinutes(tbl, t) ==
    Drop(tbl, {k \in DOMAIN tbl :
                 t > tbl[k].LockUntil /\ t - tbl[k].LastFail > overflowStaleAfter})

\* cleanExpiredLoginAttempts: unlocked and idle for more than an hour
cleanExpiredLoginAttempts(tbl, t) ==
    Drop(tbl, {k \in DOMAIN tbl :
                 t > tbl[k].LockUntil /\ t - tbl[k].LastFail > loginRecordExpiry})

\* checkLoginLock: the value returned
checkLoginLockRet(tbl, key, t) ==
    IF key \in DOMAIN tbl /\ t < tbl[key].LockUntil
    THEN <<TRUE, tbl[key].LockUntil - t>>
    ELSE <<FALSE, 0>>

\* checkLoginLock resetting every count whose lock is not running
checkLoginLockTblForgiving(tbl, key, t) ==
    IF key \in DOMAIN tbl /\ ~(t < tbl[key].LockUntil)
    THEN [tbl EXCEPT ![key].FailCount = 0]
    ELSE tbl

\* checkLoginLock that starts the lock of a locked key anew
checkLoginLockTblProlonging(tbl, key, t) ==
    IF key \in DOMAIN tbl /\ t < tbl[key].LockUntil
    THEN [tbl EXCEPT ![key].LockUntil = t + lockDuration]
    ELSE tbl

\* checkLoginLock deleting the record of an expired lock
checkLoginLockTblDeleting(tbl, key, t) ==
    IF key \in DOMAIN tbl /\ ~(t < tbl[key].LockUntil)
    THEN Drop(tbl, {key})
    ELSE tbl

\* checkLoginLock: the table it leaves (the lazy reset)
checkLoginLockTbl(tbl, key, t) ==
    IF /\ key \in DOMAIN tbl
       /\ ~(t < tbl[key].LockUntil)
       /\ tbl[key].FailCount >= maxLoginAttempts
    THEN [tbl EXCEPT ![key].FailCount = 0]
    ELSE tbl

\* recordLoginFail, first round: unlocked and idle for more than 5 minutes
PurgeStale(tbl, t) ==
    Drop(tbl, {k \in DOMAIN tbl :
                 t > tbl[k].LockUntil /\ t - tbl[k].LastFail > overflowStaleAfter})

\* The eviction scan ending on any key
AnyKeys(tbl) == DOMAIN tbl

\* The keys the scan for the oldest entry can end on: Go ranges over a map in
\* no fixed order and keeps the first entry it sees among equally old ones.
OldestKeys(tbl) ==
    {k \in DOMAIN tbl : \A j \in DOMAIN tbl : tbl[k].LastFail <= tbl[j].LastFail}

\* recordLoginFail, second round: every table the eviction loop can end with
RECURSIVE ForceEvict(_)
ForceEvict(tbl) ==
    IF Cardinality(DOMAIN tbl) >= maxLoginRecords /\ DOMAIN tbl # {}
    THEN UNION {ForceEvict(Drop(tbl, {k})) : k \in OldestKeys(tbl)}
    ELSE {tbl}

\* recordLoginFail, lines 134-159: the tables the overflow handling can leave
Overflow(tbl, t) ==
    IF Cardinality(DOMAIN tbl) >= maxLoginRecords
    THEN ForceEvict(PurgeStale(tbl, t))
    ELSE {tbl}

\* BumpFail locking one failure late (> for >=)
BumpFailLate(tbl, key, t) ==
    LET old == IF key \in DOMAIN tbl THEN tbl[key] ELSE ZeroAttempt
        cnt == old.FailCount + 1
    IN  Put(tbl, key,
            [FailCount |-> cnt,
             LastFail  |-> t,
             LockUntil |-> IF cnt > maxLoginAttempts
                           THEN t + lockDuration ELSE old.LockUntil])

\* recordLoginFail, lines 163-172, for one key
BumpFail(tbl, key, t) ==
    LET old == IF key \in DOMAIN tbl THEN tbl[key] ELSE ZeroAttempt
        cnt == old.FailCount + 1
    IN  Put(tbl, key,
            [FailCount |-> cnt,
             LastFail  |-> t,
             LockUntil |-> IF cnt >= maxLoginAttempts
                           THEN t + lockDuration ELSE old.LockUntil])

\* recordLoginFail, lines 162-174: both keys, on a table the overflow left
RecordBoth(tbl, ip, username, t) ==
    BumpFail(BumpFail(tbl, ip, t), UserKey(username), t)

recordLoginFailRet(after, ip, username) ==
    IF \E k \in {ip, UserKey(username)} : after[k].FailCount >= maxLoginAttempts
    THEN <<TRUE, lockDuration>>
    ELSE <<FALSE, 0>>

\* clearLoginFail forgetting the account key
clearLoginFailClientOnly(tbl, ip, username) == Drop(tbl, {ip})

\* clearLoginFail
clearLoginFail(tbl, ip, username) == Drop(tbl, {ip, UserKey(username)})

Sat(n) == IF n < MaxCalls THEN n + 1 ELSE MaxCalls

\* The bookkeeping of a recordLoginFail call that ran its overflow handling
\* from `before` to `kept` and then counted a failure under `keys`.
FailBookkeeping(before, kept, keys) ==
    /\ callsSinceOk' = [k \in LoginKeys |->
                          IF k \in keys THEN Sat(callsSinceOk[k]) ELSE callsSinceOk[k]]
    /\ callsSinceNew' = [k \in LoginKeys |->
                          IF k \in keys
                          THEN (IF k \in DOMAIN kept THEN Sat(callsSinceNew[k]) ELSE 1)
                          ELSE IF k \in DOMAIN before \ DOMAIN kept THEN 0
                          ELSE callsSinceNew[k]]

RecordFailure(ip, username) ==
    /\ \A k \in {ip, UserKey(username)} :
          k \in DOMAIN loginAttempts => loginAttempts[k].FailCount < MaxFailCount
    /\ \E kept \in Overflow(loginAttempts, now) :
          /\ loginAttempts' = RecordBoth(kept, ip, username, now)
          /\ FailBookkeeping(loginAttempts, kept, {ip, UserKey(username)})
    /\ UNCHANGED <<now, reqVars, geoVars, relayVars, mgmtVars, sortVars, tailVars, lockVars>>

RecordSuccess(ip, username) ==
    /\ loginAttempts' = clearLoginFail(loginAttempts, ip, username)
    /\ callsSinceOk' = [k \in LoginKeys |->
                          IF k \in {ip, UserKey(username)} THEN 0 ELSE callsSinceOk[k]]
    /\ callsSinceNew' = [k \in LoginKeys |->
                          IF k \in {ip, UserKey(username)} THEN 0 ELSE callsSinceNew[k]]
    /\ UNCHANGED <<now, reqVars, geoVars, relayVars, mgmtVars, sortVars, tailVars, lockVars>>

CheckLock(key) ==
    /\ loginAttempts' = checkLoginLockTbl(loginAttempts, key, now)
    /\ UNCHANGED <<now, callsSinceOk, callsSinceNew, reqVars, geoVars, relayVars, mgmtVars, sortVars, tailVars, lockVars>>

Sweep ==
    /\ loginAttempts' = cleanExpiredLoginAttempts(loginAttempts, now)
    /\ callsSinceNew' = [k \in LoginKeys |->
                           IF k \in DOMAIN loginAttempts \ DOMAIN loginAttempts'
                           THEN 0 ELSE callsSinceNew[k]]
    /\ UNCHANGED <<now, callsSinceOk, reqVars, geoVars, relayVars, mgmtVars, sortVars, tailVars, lockVars>>

Tick ==
    /\ now < MaxTime
    /\ now' = now + 1
    /\ UNCHANGED <<loginVars, reqVars, geoVars, relayVars, mgmtVars, sortVars, tailVars, lockVars>>

\* More than loginRecordExpiry passes with no call at all.
IdleHour ==
    /\ now = MaxTime
    /\ now' = now + loginRecordExpiry + 1
    /\ UNCHANGED <<loginVars, reqVars, geoVars, relayVars, mgmtVars, sortVars, tailVars, lockVars>>

InitLogin ==
    /\ loginAttempts = << >>
    /\ callsSinceOk = [k \in LoginKeys |-> 0]
    /\ callsSinceNew = [k \in LoginKeys |-> 0]

\* ------------------------------------------------------- the login handler
\* login (main.go:575-641) as a process per request: the two lock checks, the
\* credential verification and the recording each take loginMutex on their
\* own, so requests interleave between them.
Reqs == {"r1", "r2"}
KnownUsers == {"admin"}
NoArg == [ip |-> "", u |-> "", pw |-> FALSE]

\* The handler of request r moves on to pc; "idle" is its return.
Goto(r, pc) ==
    /\ reqPc' = [reqPc EXCEPT ![r] = pc]
    /\ reqArg' = IF pc = "idle" THEN [reqArg EXCEPT ![r] = NoArg] ELSE reqArg

\* lines 576-585: the request arrives and its body binds
LoginBegin(r, ip, u, pw) ==
    /\ reqPc[r] = "idle"
    /\ reqPc' = [reqPc EXCEPT ![r] = "checkIP"]
    /\ reqArg' = [reqArg EXCEPT ![r] = [ip |-> ip, u |-> u, pw |-> pw]]
    /\ UNCHANGED <<now, loginVars, geoVars, relayVars, mgmtVars, sortVars, tailVars, lockVars>>

\* lines 587-595
LoginCheckIP(r) ==
    /\ reqPc[r] = "checkIP"
    /\ loginAttempts' = checkLoginLockTbl(loginAttempts, reqArg[r].ip, now)
    /\ IF checkLoginLockRet(loginAttempts, reqArg[r].ip, now)[1]
       THEN Goto(r, "idle")
       ELSE Goto(r, "checkUser")
    /\ UNCHANGED <<now, callsSinceOk, callsSinceNew, geoVars, relayVars, mgmtVars, sortVars, tailVars, lockVars>>

\* lines 597-605
LoginCheckUser(r) ==
    /\ reqPc[r] = "checkUser"
    /\ loginAttempts' = checkLoginLockTbl(loginAttempts, UserKey(reqArg[r].u), now)
    /\ IF checkLoginLockRet(loginAttempts, UserKey(reqArg[r].u), now)[1]
       THEN Goto(r, "idle")
       ELSE Goto(r, "verify")
    /\ UNCHANGED <<now, callsSinceOk, callsSinceNew, geoVars, relayVars, mgmtVars, sortVars, tailVars, lockVars>>

\* lines 607-613: the user lookup and the password comparison
LoginVerify(r) ==
    /\ reqPc[r] = "verify"
    /\ Goto(r, IF reqArg[r].u \notin KnownUsers THEN "failUser"
               ELSE IF ~reqArg[r].pw THEN "failPassword"
               ELSE "clear")
    /\ UNCHANGED <<now, loginVars, geoVars, relayVars, mgmtVars, sortVars, tailVars, lockVars>>

\* lines 609-611 and 614-624
LoginRecordFail(r) ==
    /\ reqPc[r] \in {"failUser", "failPassword"}
    /\ LET ip == reqArg[r].ip
           u == reqArg[r].u
       IN  /\ \A k \in {ip, UserKey(u)} :
                 k \in DOMAIN loginAttempts => loginAttempts[k].FailCount < MaxFailCount
           /\ \E kept \in Overflow(loginAttempts, now) :
                 loginAttempts' = RecordBoth(kept, ip, u, now)
    /\ Goto(r, "idle")
    /\ UNCHANGED <<now, callsSinceOk, callsSinceNew, geoVars, relayVars, mgmtVars, sortVars, tailVars, lockVars>>

\* lines 627-640
LoginClear(r) ==
    /\ reqPc[r] = "clear"
    /\ LET ip == reqArg[r].ip
           u == reqArg[r].u
       IN  loginAttempts' = clearLoginFail(loginAttempts, ip, u)
    /\ Goto(r, "idle")
    /\ UNCHANGED <<now, callsSinceOk, callsSinceNew, geoVars, relayVars, mgmtVars, sortVars, tailVars, lockVars>>

InitReq ==
    /\ reqPc = [r \in Reqs |-> "idle"]
    /\ reqArg = [r \in Reqs |-> NoArg]

\* --------------------------------------------------------------- GeoIP cache
\* An address is the tuple of its octets; the empty tuple is the empty string.
\* One tick is a fraction of the configured TTL.
IPCacheTTL == 2
MaxCacheSize == 2

PublicIPs == {<<8, 8, 8, 8>>, <<1, 1, 1, 1>>}
LocalIPs == {<< >>, <<10, 0, 0, 5>>, <<127, 0, 0, 1>>, <<192, 168, 1, 1>>}
GeoIPs == PublicIPs \cup LocalIPs
Resolvers == {"g1", "g2"}

LocalNet == [Country |-> "local network", City |-> "-", ISP |-> "-"]
LookupFailed == [Country |-> "unknown", City |-> "lookup failed", ISP |-> "-"]
Unknown == [Country |-> "unknown", City |-> "-", ISP |-> "-"]
NoLocation == [Country |-> "", City |-> "", ISP |-> ""]
\* What the lookup service answers for an address.
ServiceAnswer(ip) ==
    [Country |-> "country", City |-> "city",
     ISP |-> CASE ip = <<8, 8, 8, 8>> -> "isp of 8.8.8.8"
               [] ip = <<1, 1, 1, 1>> -> "isp of 1.1.1.1"
               [] OTHER -> "isp"]

\* line 225 without the "10." prefix
isLocalIPWithoutTen(ip) ==
    \/ ip = << >>
    \/ ip[1] = 127
    \/ (Len(ip) >= 2 /\ ip[1] = 192 /\ ip[2] = 168)

\* line 225: "", "127.", "192.168." and "10." prefixes
isLocalIP(ip) ==
    \/ ip = << >>
    \/ ip[1] = 127
    \/ (Len(ip) >= 2 /\ ip[1] = 192 /\ ip[2] = 168)
    \/ ip[1] = 10

\* line 231 with `<=` for `<`
cacheHitInclusive(cache, ip, t) ==
    ip \in DOMAIN cache /\ t - cache[ip].CreatedAt <= IPCacheTTL

\* lines 229-231: the entry is there and younger than the TTL
cacheHit(cache, ip, t) ==
    ip \in DOMAIN cache /\ t - cache[ip].CreatedAt < IPCacheTTL

\* The eviction scan ending on any address
AnyIPs(cache) == DOMAIN cache

\* The addresses the scan for the oldest entry can end on (lines 266-273).
OldestIPs(cache) ==
    {a \in DOMAIN cache : \A b \in DOMAIN cache : cache[a].CreatedAt <= cache[b].CreatedAt}

\* lines 264-278 without the size check
cacheInsertNoEvict(cache, ip, loc, t) ==
    {Put(cache, ip, [Location |-> loc, CreatedAt |-> t])}

\* lines 264-278: every cache the evict-and-insert step can leave
cacheInsert(cache, ip, loc, t) ==
    LET kept == IF Cardinality(DOMAIN cache) >= IPCacheSize /\ DOMAIN cache # {}
                THEN {Drop(cache, {a}) : a \in OldestIPs(cache)}
                ELSE {cache}
    IN  {Put(c, ip, [Location |-> loc, CreatedAt |-> t]) : c \in kept}

\* lines 289-293: one pass of startIPCacheCleaner
cleanIPCache(cache, t) ==
    Drop(cache, {a \in DOMAIN cache : t - cache[a].CreatedAt > IPCacheTTL})

IdleCall == [pc |-> "idle", ip |-> << >>, found |-> "none", issued |-> 0,
             ret |-> NoLocation]

\* What the cache held for the address when the call began.
Found(cache, ip, t) ==
    IF ip \notin DOMAIN cache THEN "absent"
    ELSE IF t - cache[ip].CreatedAt < IPCacheTTL THEN "fresh"
    ELSE "expired"

\* lines 225-238: up to the release of cacheMutex before the lookup
ResolveBegin(g, ip) ==
    /\ geo[g].pc = "idle"
    /\ IF isLocalIP(ip)
       THEN /\ geo' = [geo EXCEPT ![g] = [pc |-> "idle", ip |-> ip, found |-> "local",
                                          issued |-> 0, ret |-> LocalNet]]
            /\ ipCache' = ipCache
       ELSE IF cacheHit(ipCache, ip, now)
       THEN /\ geo' = [geo EXCEPT ![g] = [pc |-> "idle", ip |-> ip,
                                          found |-> Found(ipCache, ip, now),
                                          issued |-> 0,
                                          ret |-> ipCache[ip].Location]]
            /\ ipCache' = ipCache
       ELSE /\ geo' = [geo EXCEPT ![g] = [pc |-> "lookup", ip |-> ip,
                                          found |-> Found(ipCache, ip, now),
                                          issued |-> 0, ret |-> NoLocation]]
            /\ ipCache' = Drop(ipCache, {ip})
    /\ UNCHANGED <<now, loginVars, reqVars, IPCacheSize, lastOkAt, cacheMutex, relayVars, mgmtVars, sortVars, tailVars, lockVars>>

\* The lookup handing a failure on to the insertion
ResolveLookupStoringFailures(g, outcome) ==
    /\ geo[g].pc = "lookup"
    /\ geo' = [geo EXCEPT ![g].pc = "insert", ![g].issued = @ + 1,
                           ![g].ret = IF outcome = "success"
                                      THEN ServiceAnswer(geo[g].ip) ELSE Unknown]
    /\ lastOkAt' = IF outcome = "success"
                   THEN [lastOkAt EXCEPT ![geo[g].ip] = now] ELSE lastOkAt
    /\ UNCHANGED <<now, loginVars, reqVars, IPCacheSize, ipCache, cacheMutex, relayVars, mgmtVars, sortVars, tailVars, lockVars>>

\* lines 240-261: the request to the lookup service, cacheMutex not held
ResolveLookup(g, outcome) ==
    /\ geo[g].pc = "lookup"
    /\ IF outcome = "success"
       THEN /\ geo' = [geo EXCEPT ![g].pc = "insert", ![g].issued = @ + 1,
                                  ![g].ret = ServiceAnswer(geo[g].ip)]
            /\ lastOkAt' = [lastOkAt EXCEPT ![geo[g].ip] = now]
       ELSE /\ geo' = [geo EXCEPT ![g].pc = "idle", ![g].issued = @ + 1,
                                  ![g].ret = IF outcome = "transport error"
                                             THEN LookupFailed ELSE Unknown]
            /\ lastOkAt' = lastOkAt
    /\ UNCHANGED <<now, loginVars, reqVars, IPCacheSize, ipCache, cacheMutex, relayVars, mgmtVars, sortVars, tailVars, lockVars>>

\* lines 261-280: evict, insert and return the location
ResolveInsert(g) ==
    /\ geo[g].pc = "insert"
    /\ ipCache' \in cacheInsert(ipCache, geo[g].ip, geo[g].ret, now)
    /\ geo' = [geo EXCEPT ![g].pc = "idle"]
    /\ UNCHANGED <<now, loginVars, reqVars, IPCacheSize, lastOkAt, cacheMutex, relayVars, mgmtVars, sortVars, tailVars, lockVars>>

\* lines 284-295: one firing of the cleaner's ticker
CacheCleaner ==
    /\ ipCache' = cleanIPCache(ipCache, now)
    /\ UNCHANGED <<now, loginVars, reqVars, IPCacheSize, geo, lastOkAt, cacheMutex, relayVars, mgmtVars, sortVars, tailVars, lockVars>>

\* getIPLocation and the cleaner once more, each Lock and Unlock of cacheMutex
\* a step of its own: a goroutine waits at Lock while another holds the mutex.

\* lines 225-228: the call begins; a local address returns, any other goes on
\* to cacheMutex.Lock()
LockForCheck(g, ip) ==
    /\ geo[g].pc = "idle"
    /\ IF isLocalIP(ip)
       THEN /\ geo' = [geo EXCEPT ![g] = [pc |-> "idle", ip |-> ip, found |-> "local",
                                          issued |-> 0, ret |-> LocalNet]]
            /\ cacheMutex' = cacheMutex
       ELSE /\ cacheMutex = "free"
            /\ cacheMutex' = g
            /\ geo' = [geo EXCEPT ![g] = [pc |-> "check", ip |-> ip, found |-> "none",
                                          issued |-> 0, ret |-> NoLocation]]
    /\ UNCHANGED <<now, loginVars, reqVars, IPCacheSize, ipCache, lastOkAt, relayVars, mgmtVars, sortVars, tailVars, lockVars>>

\* lines 229-238 leaving the mutex locked when the entry is missing or expired
CheckCacheKeepingLock(g) ==
    /\ geo[g].pc = "check"
    /\ IF cacheHit(ipCache, geo[g].ip, now)
       THEN /\ geo' = [geo EXCEPT ![g].pc = "idle",
                                  ![g].found = Found(ipCache, geo[g].ip, now),
                                  ![g].ret = ipCache[geo[g].ip].Location]
            /\ ipCache' = ipCache
            /\ cacheMutex' = "free"
       ELSE /\ geo' = [geo EXCEPT ![g].pc = "lookup",
                                  ![g].found = Found(ipCache, geo[g].ip, now)]
            /\ ipCache' = Drop(ipCache, {geo[g].ip})
            /\ cacheMutex' = cacheMutex
    /\ UNCHANGED <<now, loginVars, reqVars, IPCacheSize, lastOkAt, relayVars, mgmtVars, sortVars, tailVars, lockVars>>

\* lines 229-238: the map lookup under the mutex; a fresh entry is returned,
\* an expired one deleted; the mutex is unlocked on either way out
CheckCache(g) ==
    /\ geo[g].pc = "check"
    /\ cacheMutex' = "free"
    /\ IF cacheHit(ipCache, geo[g].ip, now)
       THEN /\ geo' = [geo EXCEPT ![g].pc = "idle",
                                  ![g].found = Found(ipCache, geo[g].ip, now),
                                  ![g].ret = ipCache[geo[g].ip].Location]
            /\ ipCache' = ipCache
       ELSE /\ geo' = [geo EXCEPT ![g].pc = "lookup",
                                  ![g].found = Found(ipCache, geo[g].ip, now)]
            /\ ipCache' = Drop(ipCache, {geo[g].ip})
    /\ UNCHANGED <<now, loginVars, reqVars, IPCacheSize, lastOkAt, relayVars, mgmtVars, sortVars, tailVars, lockVars>>

\* line 262: cacheMutex.Lock() after a lookup that succeeded
LockForInsert(g) ==
    /\ geo[g].pc = "insert"
    /\ cacheMutex = "free"
    /\ cacheMutex' = g
    /\ geo' = [geo EXCEPT ![g].pc = "store"]
    /\ UNCHANGED <<now, loginVars, reqVars, IPCacheSize, ipCache, lastOkAt, relayVars, mgmtVars, sortVars, tailVars, lockVars>>

\* lines 263-280: evict, insert, unlock and return
StoreEntry(g) ==
    /\ geo[g].pc = "store"
    /\ ipCache' \in cacheInsert(ipCache, geo[g].ip, geo[g].ret, now)
    /\ cacheMutex' = "free"
    /\ geo' = [geo EXCEPT ![g].pc = "idle"]
    /\ UNCHANGED <<now, loginVars, reqVars, IPCacheSize, lastOkAt, relayVars, mgmtVars, sortVars, tailVars, lockVars>>

\* lines 286-287: the cleaner's ticker fires and it locks the mutex
CleanerLock ==
    /\ cacheMutex = "free"
    /\ cacheMutex' = "cleaner"
    /\ UNCHANGED <<now, loginVars, reqVars, IPCacheSize, ipCache, geo, lastOkAt, relayVars, mgmtVars, sortVars, tailVars, lockVars>>

\* lines 288-294: the cleaner's pass and its unlock
CleanerPass ==
    /\ cacheMutex = "cleaner"
    /\ ipCache' = cleanIPCache(ipCache, now)
    /\ cacheMutex' = "free"
    /\ UNCHANGED <<now, loginVars, reqVars, IPCacheSize, geo, lastOkAt, relayVars, mgmtVars, sortVars, tailVars, lockVars>>

InitGeo ==
    /\ ipCache = << >>
    /\ geo = [g \in Resolvers |-> IdleCall]
    /\ lastOkAt = [a \in PublicIPs |-> ZeroTime]
    /\ cacheMutex = "free"

\* --------------------------------------------------------------- relay table
\* One tick is 20 seconds.  A text is the tuple of its characters.
relayWindow == 3
MaxPktCount == 2

Upper(c) ==
    CASE c = "a" -> "A" [] c = "b" -> "B" [] c = "c" -> "C"
      [] c = "d" -> "D" [] c = "e" -> "E" [] c = "f" -> "F"
      [] OTHER -> c

\* strings.ToUpper(strings.ReplaceAll(text, ":", ""))
RECURSIVE CanonMac(_)
CanonMac(text) ==
    IF text = << >> THEN << >>
    ELSE IF Head(text) = ":" THEN CanonMac(Tail(text))
    ELSE <<Upper(Head(text))>> \o CanonMac(Tail(text))

\* The addresses the forwarding lines of the log carry.
LogMac1 == <<"a","a",":","0","0",":","0","0",":","0","0",":","0","0",":","0","1">>
LogMac2 == <<"A","A",":","0","0",":","0","0",":","0","0",":","0","0",":","0","2">>
LogMacs == {LogMac1, LogMac2}
Mac1 == <<"A","A","0","0","0","0","0","0","0","0","0","1">>
Mac2 == <<"A","A","0","0","0","0","0","0","0","0","0","2">>
Mac3 == <<"A","A","0","0","0","0","0","0","0","0","0","3">>

NoResp == [handler |-> "none"]

\* line 967 with `<=` for `<`
relayActiveInclusive(ev, t) == t - ev.LastActive <= relayWindow

\* line 967: the pair was active less than 60 seconds ago
relayActive(ev, t) == t - ev.LastActive < relayWindow

\* lines 321-333: a log line matched the forwarding pattern
LogForward(rawSrc, rawDst) ==
    LET src == CanonMac(rawSrc)
        dst == CanonMac(rawDst)
        key == <<src, dst>>
    IN  /\ resp = NoResp
        /\ key \in DOMAIN relayMap => relayMap[key].PktCount < MaxPktCount
        /\ relayMap' =
              IF key \in DOMAIN relayMap
              THEN [relayMap EXCEPT ![key].LastActive = now, ![key].PktCount = @ + 1]
              ELSE Put(relayMap, key, [SrcMac |-> src, DstMac |-> dst,
                                       LastActive |-> now, PktCount |-> 1])
        /\ UNCHANGED <<now, loginVars, reqVars, geoVars, nodes, resp, mgmtVars, sortVars, tailVars, lockVars>>

\* lines 963-970
GetActiveRelays ==
    LET stale == {k \in DOMAIN relayMap : ~relayActive(relayMap[k], now)}
    IN  /\ resp = NoResp
        /\ resp' = [handler |-> "relays",
                    body |-> {relayMap[k] : k \in DOMAIN relayMap \ stale},
                    dropped |-> stale]
        /\ relayMap' = Drop(relayMap, stale)
        /\ UNCHANGED <<now, loginVars, reqVars, geoVars, nodes, mgmtVars, sortVars, tailVars, lockVars>>

\* The handler's response is written out and the handler returns.
Respond ==
    /\ resp # NoResp
    /\ resp' = NoResp
    /\ UNCHANGED <<now, loginVars, reqVars, geoVars, relayMap, nodes, mgmtVars, sortVars, tailVars, lockVars>>

\* The clock of the relay and node handlers: it moves between calls.
RelayTick ==
    /\ resp = NoResp
    /\ now < MaxTime
    /\ now' = now + 1
    /\ UNCHANGED <<loginVars, reqVars, geoVars, relayVars, mgmtVars, sortVars, tailVars, lockVars>>

\* --------------------------------------------------------------- node listing
IP_1 == <<"1","0",".","0",".","0",".","1">>
IP_2 == <<"1","0",".","0",".","0",".","2">>
IP_10 == <<"1","0",".","0",".","0",".","1","0">>

\* The rows db.Find returns; createNode stores hardware addresses canonical
\* (lines 714-728).
Inventory ==
    << [ID |-> 1, Name |-> "n1", IPAddress |-> IP_10, MacAddress |-> Mac1,
        Community |-> "c1"],
       [ID |-> 2, Name |-> "n2", IPAddress |-> IP_2, MacAddress |-> Mac2,
        Community |-> "c1"] >>

PeerMacs == {Mac1, Mac2, Mac3}

\* What the daemon reports for a peer; External is the sequence of the
\* ":"-separated fields of "address:port".
EdgeInfoOf(mac) ==
    [Mac |-> mac,
     Internal |-> CASE mac = Mac1 -> IP_10 [] mac = Mac2 -> IP_2 [] OTHER -> IP_1,
     External |-> CASE mac = Mac1 -> << <<8, 8, 8, 8>>, 40000 >>
                    [] mac = Mac2 -> << <<10, 0, 0, 5>>, 40001 >>
                    [] OTHER -> << <<1, 1, 1, 1>>, 40002 >>]

\* The results of GetEdgeInfo: an error with no map, or a map of live peers.
EdgeResults ==
    {[err |-> TRUE, peers |-> << >>]} \cup
    {[err |-> FALSE, peers |-> [m \in S |-> EdgeInfoOf(m)]] : S \in SUBSET PeerMacs}

\* lines 519-525: the source side of every key of the table
activeRelaysOf(tbl) == {k[1] : k \in DOMAIN tbl}

\* A whole getIPLocation call (lines 224-281): every (location, cache) it can end with.
getIPLocation(cache, ip, t) ==
    IF isLocalIP(ip) THEN {[loc |-> LocalNet, cache |-> cache]}
    ELSE IF cacheHit(cache, ip, t) THEN {[loc |-> cache[ip].Location, cache |-> cache]}
    ELSE LET c0 == Drop(cache, {ip})
         IN  {[loc |-> LookupFailed, cache |-> c0], [loc |-> Unknown, cache |-> c0]} \cup
             {[loc |-> ServiceAnswer(ip), cache |-> c] :
                 c \in cacheInsert(c0, ip, ServiceAnswer(ip), t)}

\* MappedEntry reporting every persisted node as online
MappedEntryAlwaysOnline(n, edges, active, loc) ==
    [id |-> n.ID, name |-> n.Name, ip_address |-> n.IPAddress,
     mac_address |-> n.MacAddress, community |-> n.Community,
     is_online |-> TRUE, is_mapped |-> TRUE,
     external_ip |-> << >>, location |-> "", conn_type |-> "P2P"]

\* lines 529-548: the entry of a persisted node
MappedEntry(n, edges, active, loc) ==
    LET m == CanonMac(n.MacAddress)
        online == m \in DOMAIN edges
    IN  [id |-> n.ID, name |-> n.Name, ip_address |-> n.IPAddress,
         mac_address |-> n.MacAddress, community |-> n.Community,
         is_online |-> online, is_mapped |-> TRUE,
         external_ip |-> IF online THEN edges[m].External[1] ELSE << >>,
         location |-> IF online
                      THEN loc.Country \o " " \o loc.City \o " (" \o loc.ISP \o ")"
                      ELSE "",
         conn_type |-> IF ~online THEN ""
                       ELSE IF m \in active THEN "Relay" ELSE "P2P"]

\* lines 549-561: the entry of a live peer no persisted node matches
UnmappedEntry(mac, edges, active, loc) ==
    [id |-> 0, name |-> "discovered", ip_address |-> edges[mac].Internal,
     mac_address |-> mac, community |-> "unknown",
     is_online |-> TRUE, is_mapped |-> FALSE,
     external_ip |-> edges[mac].External[1],
     location |-> loc.Country \o " " \o loc.City,
     conn_type |-> IF mac \in active THEN "Relay" ELSE "P2P"]

\* lines 529-548, one node after the other: every (entries, cache) the loop can end with
RECURSIVE MappedEntries(_, _, _, _, _)
MappedEntries(ns, edges, active, cache, t) ==
    IF ns = << >> THEN {[res |-> << >>, cache |-> cache]}
    ELSE LET n == Head(ns)
             m == CanonMac(n.MacAddress)
             firsts == IF m \in DOMAIN edges
                       THEN getIPLocation(cache, edges[m].External[1], t)
                       ELSE {[loc |-> NoLocation, cache |-> cache]}
         IN  UNION {{[res |-> <<MappedEntry(n, edges, active, f.loc)>> \o r.res,
                      cache |-> r.cache] :
                        r \in MappedEntries(Tail(ns), edges, active, f.cache, t)} :
                    f \in firsts}

\* The second loop leaving every live peer out
UnmappedEntriesNone(macs, edges, active, cache, t) ==
    {[res |-> << >>, cache |-> cache]}

\* lines 549-561, in any order the map iteration can take
RECURSIVE UnmappedEntries(_, _, _, _, _)
UnmappedEntries(macs, edges, active, cache, t) ==
    IF macs = {} THEN {[res |-> << >>, cache |-> cache]}
    ELSE UNION {UNION {{[res |-> <<UnmappedEntry(mac, edges, active, f.loc)>> \o r.res,
                         cache |-> r.cache] :
                           r \in UnmappedEntries(macs \ {mac}, edges, active, f.cache, t)} :
                       f \in getIPLocation(cache, edges[mac].External[1], t)} :
                mac \in macs}

\* The byte of a character of an address text.
ByteOf(c) ==
    CASE c = "." -> 46 [] c = "0" -> 48 [] c = "1" -> 49 [] c = "2" -> 50
      [] c = "3" -> 51 [] c = "4" -> 52 [] c = "5" -> 53 [] c = "6" -> 54
      [] c = "7" -> 55 [] c = "8" -> 56 [] c = "9" -> 57 [] OTHER -> 120

\* line 569: ipA < ipB on strings
RECURSIVE StrLess(_, _)
StrLess(a, b) ==
    IF b = << >> THEN FALSE
    ELSE IF a = << >> THEN TRUE
    ELSE IF ByteOf(Head(a)) # ByteOf(Head(b)) THEN ByteOf(Head(a)) < ByteOf(Head(b))
    ELSE StrLess(Tail(a), Tail(b))

\* The "."-separated fields of a text.
RECURSIVE Fields(_)
Fields(text) ==
    IF text = << >> THEN << << >> >>
    ELSE LET rest == Fields(Tail(text))
         IN  IF Head(text) = "." THEN << << >> >> \o rest
             ELSE << <<Head(text)>> \o Head(rest) >> \o Tail(rest)

NoIP == << >>

RECURSIVE DecimalOf(_)
DecimalOf(f) ==
    IF f = << >> THEN 0 ELSE DecimalOf(SubSeq(f, 1, Len(f) - 1)) * 10 + (ByteOf(f[Len(f)]) - 48)

\* A field of a dotted quad: 1 to 3 digits, no leading zero, at most 255; -1 otherwise.
FieldValue(f) ==
    IF Len(f) \notin 1..3 \/ (\E i \in 1..Len(f) : ByteOf(f[i]) \notin 48..57) THEN -1
    ELSE IF Len(f) > 1 /\ f[1] = "0" THEN -1
    ELSE IF DecimalOf(f) > 255 THEN -1
    ELSE DecimalOf(f)

\* lines 566-567, 732: net.ParseIP on an address text, NoIP for nil.  The texts
\* it takes here are the dotted quad and the dotted quad behind "::ffff:", the
\* IPv4-mapped form, which parse to the same address.
ParseIP(text) ==
    LET quad == IF Len(text) >= 7 /\ SubSeq(text, 1, 7) = <<":", ":", "f", "f", "f", "f", ":">>
                THEN SubSeq(text, 8, Len(text))
                ELSE text
        f == Fields(quad)
    IN  IF Len(f) = 4 /\ \A i \in 1..4 : FieldValue(f[i]) >= 0
        THEN [i \in 1..4 |-> FieldValue(f[i])]
        ELSE NoIP

\* net.IP.To16 of a 4-byte address
To16(ip) == <<0, 0, 0, 0, 0, 0, 0, 0, 0, 0, 255, 255>> \o ip

\* n2n_utils.go lines 39-51, from byte i on
RECURSIVE CompareFrom(_, _, _)
CompareFrom(a, b, i) ==
    IF i > Len(a) THEN 0
    ELSE IF a[i] < b[i] THEN -1
    ELSE IF a[i] > b[i] THEN 1
    ELSE CompareFrom(a, b, i + 1)

CompareIP(a, b) == CompareFrom(To16(a), To16(b), 1)

\* less with the comparison of strings alone
lessAsStrings(x, y) == StrLess(x.ip_address, y.ip_address)

\* lines 563-572: the comparison sort.Slice is given
less(x, y) ==
    LET a == ParseIP(x.ip_address)
        b == ParseIP(y.ip_address)
    IN  IF a = NoIP \/ b = NoIP THEN StrLess(x.ip_address, y.ip_address)
        ELSE CompareIP(a, b) < 0

Swap(res, i, j) == [res EXCEPT ![i] = res[j], ![j] = res[i]]

\* The inner loop of the insertion sort sort.Slice runs on a short slice.
RECURSIVE SinkDown(_, _)
SinkDown(res, j) ==
    IF j > 1 /\ less(res[j], res[j - 1]) THEN SinkDown(Swap(res, j, j - 1), j - 1)
    ELSE res

RECURSIVE SortFrom(_, _)
SortFrom(res, i) ==
    IF i > Len(res) THEN res ELSE SortFrom(SinkDown(res, i), i + 1)

\* lines 563-572
SortByAddress(res) == SortFrom(res, 2)

\* getNodes giving up on an error of GetEdgeInfo or on a failed lookup
getNodesAborting(ns, edgeResult, tbl, cache, t) ==
    {[body |-> << >>, cache |-> cache]}

\* lines 515-574: every (listing, cache) a getNodes call can end with
getNodesResults(ns, edgeResult, tbl, cache, t) ==
    LET edges == edgeResult.peers
        active == activeRelaysOf(tbl)
        mappedMacs == {CanonMac(ns[i].MacAddress) : i \in 1..Len(ns)}
    IN  UNION {{[body |-> SortByAddress(m.res \o u.res), cache |-> u.cache] :
                   u \in UnmappedEntries(DOMAIN edges \ mappedMacs, edges, active,
                                         m.cache, t)} :
               m \in MappedEntries(ns, edges, active, cache, t)}

\* lines 515-574
GetNodes(edgeResult) ==
    /\ resp = NoResp
    /\ \E r \in getNodesResults(nodes, edgeResult, relayMap, ipCache, now) :
          /\ resp' = [handler |-> "nodes", body |-> r.body, edges |-> edgeResult.peers,
                       err |-> edgeResult.err]
          /\ ipCache' = r.cache
    /\ UNCHANGED <<now, loginVars, reqVars, IPCacheSize, geo, lastOkAt, cacheMutex, relayMap, nodes, mgmtVars, sortVars, tailVars, lockVars>>

InitRelay ==
    /\ relayMap = << >>
    /\ nodes = Inventory
    /\ resp = NoResp

\* ------------------------------------------------------- management client
\* n2n_utils.go: Query and GetEdgeInfo.  A text is the tuple of its characters;
\* the daemon answers with datagrams, one line each.  One tick is 25 ms.
MaxDatagrams == 3
\* line 146: 200 ms for the first datagram
firstReadDeadline == 8
\* line 152: 50 ms for every further one
readDeadline == 2
\* line 133: one second, the one timeout of a second's order a query has
sessionDeadline == 40

\* "SUPERNODES"
TxtSupernodes ==
    <<"S","U","P","E","R","N","O","D","E","S">>
\* "SUPERNODE FORWARD"
TxtForward ==
    <<"S","U","P","E","R","N","O","D","E"," ","F","O","R","W","A","R","D">>
\* "FEDERATION"
TxtFederation ==
    <<"F","E","D","E","R","A","T","I","O","N">>

\* "### SUPERNODES\n"
LineSupernodes ==
    <<"#","#","#"," ","S","U","P","E","R","N","O","D","E","S","\n">>
\* "### SUPERNODE FORWARD\n"
LineForward ==
    <<"#","#","#"," ","S","U","P","E","R","N","O","D","E"," ","F","O","R","W","A","R",
      "D","\n">>
\* "### FEDERATION\n"
LineFederation ==
    <<"#","#","#"," ","F","E","D","E","R","A","T","I","O","N","\n">>
\* "1 | 10.0.0.10 | aa:00:00:00:00:01 | 8.8.8.8:40000 | 7\n"
LinePeer1 ==
    <<"1"," ","|"," ","1","0",".","0",".","0",".","1","0"," ","|"," ","a","a",":","0",
      "0",":","0","0",":","0","0",":","0","0",":","0","1"," ","|"," ","8",".","8",".",
      "8",".","8",":","4","0","0","0","0"," ","|"," ","7","\n">>
\* "3|10.0.0.1|AA-00-00-00-00-03|1.1.1.1:40002|e3| x\n"
LinePeer3 ==
    <<"3","|","1","0",".","0",".","0",".","1","|","A","A","-","0","0","-","0","0","-",
      "0","0","-","0","0","-","0","3","|","1",".","1",".","1",".","1",":","4","0","0",
      "0","2","|","e","3","|"," ","x","\n">>
\* "2 | 10.0.0.2 | AA:00:00:00:00:02 | 9\n"
LineShort ==
    <<"2"," ","|"," ","1","0",".","0",".","0",".","2"," ","|"," ","A","A",":","0","0",
      ":","0","0",":","0","0",":","0","0",":","0","2"," ","|"," ","9","\n">>
\* "4|10.0.0.4|-|-|5\n"
LineNoMac ==
    <<"4","|","1","0",".","0",".","0",".","4","|","-","|","-","|","5","\n">>

DaemonLines ==
    {LineSupernodes, LineForward, LineFederation, LinePeer1, LinePeer3, LineShort,
     LineNoMac}

RECURSIVE SeqsUpTo(_, _)
SeqsUpTo(S, n) ==
    IF n = 0 THEN {<< >>}
    ELSE LET shorter == SeqsUpTo(S, n - 1)
         IN  shorter \cup {Append(q, x) : q \in {r \in shorter : Len(r) = n - 1}, x \in S}

\* The answers the daemon can give to "edges", as sequences of datagrams.
DaemonAnswers == SeqsUpTo(DaemonLines, MaxDatagrams)

\* strings.Contains
Contains(text, pat) ==
    \E i \in 1..(Len(text) - Len(pat) + 1) : SubSeq(text, i, i + Len(pat) - 1) = pat

\* strings.Split(text, c) for a one-character separator
SplitChar(text, c) ==
    LET seps == {i \in 1..Len(text) : text[i] = c}
        n == Cardinality(seps)
        at(k) == IF k = 0 THEN 0
                 ELSE IF k = n + 1 THEN Len(text) + 1
                 ELSE CHOOSE p \in seps : Cardinality({q \in seps : q < p}) = k - 1
    IN  [k \in 1..(n + 1) |-> SubSeq(text, at(k - 1) + 1, at(k) - 1)]

IsSpace(c) == c \in {" ", "\n", "\t", "\r"}

RECURSIVE TrimLeft(_)
TrimLeft(text) ==
    IF text # << >> /\ IsSpace(Head(text)) THEN TrimLeft(Tail(text)) ELSE text

RECURSIVE TrimRight(_)
TrimRight(text) ==
    IF text # << >> /\ IsSpace(text[Len(text)])
    THEN TrimRight(SubSeq(text, 1, Len(text) - 1)) ELSE text

\* strings.TrimSpace
TrimSpace(text) == TrimRight(TrimLeft(text))

IsHex(c) ==
    c \in {"0", "1", "2", "3", "4", "5", "6", "7", "8", "9",
           "a", "b", "c", "d", "e", "f", "A", "B", "C", "D", "E", "F"}

\* ([0-9A-Fa-f]{2}[:-]){5}([0-9A-Fa-f]{2}) matches the 17 characters from i on
MacAt(text, i) ==
    /\ i + 16 <= Len(text)
    /\ \A k \in 0..16 :
          IF k % 3 = 2 THEN text[i + k] \in {":", "-"} ELSE IsHex(text[i + k])

\* reMac.FindString: the leftmost match, the empty text if there is none
FindMac(text) ==
    LET at == {i \in 1..Len(text) : MacAt(text, i)}
    IN  IF at = {} THEN << >>
        ELSE LET i == CHOOSE j \in at : \A k \in at : j <= k
             IN  SubSeq(text, i, i + 16)

\* The decimal digits a text starts with.
RECURSIVE LeadingDigits(_)
LeadingDigits(text) ==
    IF text # << >> /\ ByteOf(Head(text)) \in 48..57
    THEN <<Head(text)>> \o LeadingDigits(Tail(text)) ELSE << >>

\* fmt.Sscanf(text, "%d", &lastSeen) on lastSeen = 0
ScanInt(text) ==
    LET t == TrimLeft(text)
        neg == t # << >> /\ Head(t) = "-"
        body == IF t # << >> /\ Head(t) \in {"-", "+"} THEN Tail(t) ELSE t
        digits == LeadingDigits(body)
    IN  IF digits = << >> THEN 0
        ELSE IF neg THEN 0 - DecimalOf(digits) ELSE DecimalOf(digits)

\* lines 197-213 asking for 4 fields
EdgeOfLineFourFields(line, edges) ==
    LET mac == FindMac(line)
        cleanMac == CanonMac(mac)
        fields == SplitChar(line, "|")
    IN  IF mac # << >> /\ Len(fields) >= 4
        THEN Put(edges, cleanMac,
                 [Mac |-> cleanMac,
                  Internal |-> TrimSpace(fields[2]),
                  External |-> TrimSpace(fields[4]),
                  LastSeen |-> ScanInt(TrimSpace(fields[Len(fields)]))])
        ELSE edges

\* lines 197-213: the record a peer line adds, if it adds one
EdgeOfLine(line, edges) ==
    LET mac == FindMac(line)
        cleanMac == CanonMac(mac)
        fields == SplitChar(line, "|")
    IN  IF mac # << >> /\ Len(fields) >= 5
        THEN Put(edges, cleanMac,
                 [Mac |-> cleanMac,
                  Internal |-> TrimSpace(fields[2]),
                  External |-> TrimSpace(fields[4]),
                  LastSeen |-> ScanInt(TrimSpace(fields[Len(fields)]))])
        ELSE edges

\* lines 185-214: the loop over the lines, from line i on
RECURSIVE ScanLines(_, _, _, _)
ScanLines(lines, i, isSupernodeSection, edges) ==
    IF i > Len(lines) THEN edges
    ELSE IF Contains(lines[i], TxtSupernodes)
    THEN ScanLines(lines, i + 1, TRUE, edges)
    ELSE IF Contains(lines[i], TxtForward) \/ Contains(lines[i], TxtFederation)
    THEN ScanLines(lines, i + 1, FALSE, edges)
    ELSE IF isSupernodeSection
    THEN ScanLines(lines, i + 1, TRUE, edges)
    ELSE ScanLines(lines, i + 1, FALSE, EdgeOfLine(lines[i], edges))

\* lines 179-216: the map GetEdgeInfo builds from the text Query returned
ParseEdges(text) == ScanLines(SplitChar(text, "\n"), 1, FALSE, << >>)

NoResult == [err |-> FALSE, peers |-> << >>, set |-> FALSE]
QueryFailed == [err |-> TRUE, peers |-> << >>, set |-> TRUE]

NoMacs == [err |-> FALSE, macs |-> << >>, set |-> FALSE]

\* GetOnlineMacs passing on an empty map for an error
GetOnlineMacsHidingError(edges) ==
    [err |-> FALSE, set |-> TRUE,
     macs |-> [m \in DOMAIN edges.peers |-> edges.peers[m].LastSeen]]

\* lines 161-171: GetOnlineMacs on what GetEdgeInfo returned to it
GetOnlineMacs(edges) ==
    IF edges.err
    THEN [err |-> TRUE, macs |-> << >>, set |-> TRUE]
    ELSE [err |-> FALSE, set |-> TRUE,
          macs |-> [m \in DOMAIN edges.peers |-> edges.peers[m].LastSeen]]

\* lines 133-136: net.DialTimeout
QueryDial(ok) ==
    /\ qPc = "idle"
    /\ IF ok
       THEN qPc' = "write" /\ UNCHANGED <<qRet, qFault>>
       ELSE qPc' = "done" /\ qRet' = QueryFailed /\ qFault' = "dial"
    /\ UNCHANGED <<tailVars, lockVars, sortVars, now, loginVars, reqVars, geoVars, relayVars, qIn, qBuf,
                   qLastRead, qMacs>>

\* lines 139-146: conn.Write; the daemon answers what it answers
QueryWrite(ok, answer) ==
    /\ qPc = "write"
    /\ IF ok
       THEN qPc' = "read" /\ qIn' = answer /\ UNCHANGED <<qRet, qFault>>
       ELSE qPc' = "done" /\ qRet' = QueryFailed /\ qFault' = "write" /\ qIn' = qIn
    /\ UNCHANGED <<tailVars, lockVars, sortVars, now, loginVars, reqVars, geoVars, relayVars, qBuf,
                   qLastRead, qMacs>>

\* lines 148-153: a read that returns a datagram of the answer; the datagrams
\* of an answer arrive in one burst
QueryRead ==
    /\ qPc = "read"
    /\ qIn # << >>
    /\ qBuf' = qBuf \o Head(qIn)
    /\ qIn' = Tail(qIn)
    /\ UNCHANGED <<tailVars, lockVars, sortVars, now, loginVars, reqVars, geoVars, relayVars, qPc, qRet,
                   qFault, qLastRead, qMacs>>

\* The datagram of a daemon that keeps sending: an empty line.
MoreDatagram == <<"\n">>

\* The text is made of such datagrams only.
OnlyMore(text) == \A i \in 1..Len(text) : text[i] = "\n"

\* lines 148-153: a read that returns a datagram of a daemon that keeps
\* sending, each one before the deadline set after the one before it (the
\* first before the deadline set after the write); line 152 then sets the
\* next deadline
QueryReadMore(delay) ==
    /\ qPc = "read"
    /\ qIn = << >>
    /\ OnlyMore(qBuf)
    /\ qLastRead <= sessionDeadline
    /\ delay < (IF qBuf = << >> THEN firstReadDeadline ELSE readDeadline)
    /\ qBuf' = qBuf \o MoreDatagram
    /\ qLastRead' = qLastRead + delay
    /\ UNCHANGED <<tailVars, lockVars, sortVars, now, loginVars, reqVars, geoVars, relayVars, qPc, qIn, qRet,
                   qFault, qMacs>>

\* lines 154-158: a read that returns an error (the deadline passed, or the
\* socket failed); what the daemon had still to deliver is lost
QueryReadError ==
    /\ qPc = "read"
    /\ qPc' = "parse"
    /\ qFault' = IF qIn = << >> THEN "none"
                 ELSE IF qBuf = << >> THEN "nothing received" ELSE "cut off"
    /\ UNCHANGED <<tailVars, lockVars, sortVars, now, loginVars, reqVars, geoVars, relayVars, qIn, qBuf, qRet,
                   qLastRead, qMacs>>

\* lines 174-217: GetEdgeInfo on the text Query returned
GetEdgeInfoParse ==
    /\ qPc = "parse"
    /\ qPc' = "done"
    /\ qRet' = [err |-> FALSE, peers |-> ParseEdges(qBuf), set |-> TRUE]
    /\ UNCHANGED <<tailVars, lockVars, sortVars, now, loginVars, reqVars, geoVars, relayVars, qIn, qBuf, qFault,
                   qLastRead, qMacs>>

\* lines 162-170: GetEdgeInfo has returned to GetOnlineMacs
GetOnlineMacsReturn ==
    /\ qPc = "done"
    /\ qPc' = "macs"
    /\ qMacs' = GetOnlineMacs(qRet)
    /\ UNCHANGED <<tailVars, lockVars, sortVars, now, loginVars, reqVars, geoVars, relayVars, qIn, qBuf, qRet,
                   qFault, qLastRead>>

\* The caller has the result; the next call starts afresh.
QueryReturn ==
    /\ qPc \in {"done", "macs"}
    /\ qPc' = "idle"
    /\ qIn' = << >>
    /\ qBuf' = << >>
    /\ qRet' = NoResult
    /\ qFault' = "none"
    /\ qLastRead' = 0
    /\ qMacs' = NoMacs
    /\ UNCHANGED <<now, loginVars, reqVars, geoVars, relayVars, sortVars, tailVars, lockVars>>

InitMgmt ==
    /\ qPc = "idle"
    /\ qIn = << >>
    /\ qBuf = << >>
    /\ qRet = NoResult
    /\ qFault = "none"
    /\ qLastRead = 0
    /\ qMacs = NoMacs

\* ------------------------------------------------------------- the log tailer
\* startLogAnalyzer, lines 298-337: journalctl is attached, its lines are read
\* one by one and a forwarding line updates the relay table.
PatForwarding == <<"f","o","r","w","a","r","d","i","n","g"," ","p","a","c","k","e","t">>
PatFrom == <<"f","r","o","m"," ">>
PatTo == <<" ","t","o"," ">>
\* {17} of the pattern
macTextLen == 17
\* The seconds the loop sleeps after a failed attach and after a read error.
openBackoff == 5
readBackoff == 2

HasAt(text, pat, i) ==
    /\ i + Len(pat) - 1 <= Len(text)
    /\ SubSeq(text, i, i + Len(pat) - 1) = pat

\* [0-9A-Fa-f:]{17} matches the 17 characters from i on
MacTextAt(text, i) ==
    /\ i + macTextLen - 1 <= Len(text)
    /\ \A k \in i..(i + macTextLen - 1) : IsHex(text[k]) \/ text[k] = ":"

\* "from (17) to (17)" starts at j
FromToAt(text, j) ==
    /\ HasAt(text, PatFrom, j)
    /\ MacTextAt(text, j + Len(PatFrom))
    /\ HasAt(text, PatTo, j + Len(PatFrom) + macTextLen)
    /\ MacTextAt(text, j + Len(PatFrom) + macTextLen + Len(PatTo))

\* The submatches <<whole, src, dst>> of the match that starts at i and whose
\* "from" is at j.
Submatches(line, i, j) ==
    LET s == j + Len(PatFrom)
        d == s + macTextLen + Len(PatTo)
    IN  <<SubSeq(line, i, d + macTextLen - 1),
          SubSeq(line, s, s + macTextLen - 1),
          SubSeq(line, d, d + macTextLen - 1)>>

\* line 299, re.FindStringSubmatch(line): the leftmost match of
\* `forwarding packet.*from (17) to (17)`, its `.*` as long as it can be; the
\* empty tuple if the line has no match
FindStringSubmatch(line) ==
    LET heads == {i \in 1..Len(line) : HasAt(line, PatForwarding, i)}
        tails(i) == {j \in (i + Len(PatForwarding))..Len(line) : FromToAt(line, j)}
        found == {i \in heads : tails(i) # {}}
    IN  IF found = {} THEN << >>
        ELSE LET i == CHOOSE x \in found : \A y \in found : x <= y
                 j == CHOOSE x \in tails(i) : \A y \in tails(i) : y <= x
             IN  Submatches(line, i, j)

\* A pair that is observed again starts over at counter 1.
relayObserveRestarting(tbl, src, dst, t) ==
    Put(tbl, <<src, dst>>, [SrcMac |-> src, DstMac |-> dst, LastActive |-> t, PktCount |-> 1])

\* The stale pairs are swept whenever a pair is observed.
relayObserveSweeping(tbl, src, dst, t) ==
    LET kept == Drop(tbl, {k \in DOMAIN tbl : k # <<src, dst>> /\ ~relayActive(tbl[k], t)})
    IN  IF <<src, dst>> \in DOMAIN kept
        THEN [kept EXCEPT ![<<src, dst>>].LastActive = t, ![<<src, dst>>].PktCount = @ + 1]
        ELSE Put(kept, <<src, dst>>,
                 [SrcMac |-> src, DstMac |-> dst, LastActive |-> t, PktCount |-> 1])

\* lines 327-331, between Lock and Unlock of relayMutex
relayObserve(tbl, src, dst, t) ==
    IF <<src, dst>> \in DOMAIN tbl
    THEN [tbl EXCEPT ![<<src, dst>>].LastActive = t, ![<<src, dst>>].PktCount = @ + 1]
    ELSE Put(tbl, <<src, dst>>,
             [SrcMac |-> src, DstMac |-> dst, LastActive |-> t, PktCount |-> 1])

\* lines 320-333: what one line does to the table
relayAfterLine(tbl, line, t) ==
    LET matches == FindStringSubmatch(line)
    IN  IF Len(matches) = 3
        THEN relayObserve(tbl, CanonMac(matches[2]), CanonMac(matches[3]), t)
        ELSE tbl

\* The lines journalctl delivers.
LogHyphenMac1 == <<"a","a","-","0","0","-","0","0","-","0","0","-","0","0","-","0","1">>
LogPrefix == <<"s","n",":"," ">>
LogOther == <<"e","d","g","e"," ","u","p"," ">>
LogLine12 == LogPrefix \o PatForwarding \o <<" ">> \o PatFrom \o LogMac1 \o PatTo \o LogMac2 \o <<"\n">>
LogLine21 == LogPrefix \o PatForwarding \o <<" ","x"," ">> \o PatFrom \o LogMac2 \o PatTo \o LogMac1 \o <<"\n">>
LogLineHyphen == PatForwarding \o <<" ">> \o PatFrom \o LogHyphenMac1 \o PatTo \o LogMac2 \o <<"\n">>
LogLineOther == LogPrefix \o LogOther \o LogMac1 \o <<"\n">>
LogLineShort == PatForwarding \o <<" ">> \o PatFrom \o LogMac1 \o PatTo \o SubSeq(LogMac2, 1, 5) \o <<"\n">>
LogLineEmpty == <<"\n">>
ForwardingLines == {LogLine12, LogLine21}
OtherLines == {LogLineHyphen, LogLineOther, LogLineShort, LogLineEmpty}
LogLines == ForwardingLines \cup OtherLines

AttachOutcomes == {"pipe failed", "start failed", "started"}
\* skipped: the line before this one had no match
TailerAt(pc) == [pc |-> pc, line |-> << >>, sleep |-> 0, cause |-> "none", skipped |-> FALSE]

\* lines 301-312: exec.Command, StdoutPipe, Start
TailAttach(outcome) ==
    /\ tailer.pc = "attach"
    /\ tailer' = IF outcome = "started"
                 THEN TailerAt("reading")
                 ELSE [TailerAt("sleeping") EXCEPT !.sleep = openBackoff, !.cause = outcome]
    /\ UNCHANGED <<now, loginVars, reqVars, geoVars, relayVars, mgmtVars, sortVars, lockVars>>

\* line 315: ReadString returns a line
TailReadLine(line) ==
    /\ tailer.pc = "reading"
    /\ \A k \in DOMAIN relayAfterLine(relayMap, line, now) :
          relayAfterLine(relayMap, line, now)[k].PktCount <= MaxPktCount
    /\ tailer' = [tailer EXCEPT !.pc = "matching", !.line = line]
    /\ UNCHANGED <<now, loginVars, reqVars, geoVars, relayVars, mgmtVars, sortVars, lockVars>>

\* The loop ends its life at a read error.
TailReadErrorFatal ==
    /\ tailer.pc = "reading"
    /\ tailer' = [TailerAt("stopped") EXCEPT !.cause = "read error"]
    /\ UNCHANGED <<now, loginVars, reqVars, geoVars, relayVars, mgmtVars, sortVars, lockVars>>

\* lines 315-319: ReadString returns an error; the process is killed and the
\* inner loop is left
TailReadError ==
    /\ tailer.pc = "reading"
    /\ tailer' = [TailerAt("sleeping") EXCEPT !.sleep = readBackoff, !.cause = "read error"]
    /\ UNCHANGED <<now, loginVars, reqVars, geoVars, relayVars, mgmtVars, sortVars, lockVars>>

\* A line without a match ends the inner loop.
TailMatchStopping ==
    /\ tailer.pc = "matching"
    /\ relayMap' = relayAfterLine(relayMap, tailer.line, now)
    /\ tailer' = IF Len(FindStringSubmatch(tailer.line)) = 3
                 THEN TailerAt("reading")
                 ELSE [TailerAt("sleeping") EXCEPT !.sleep = readBackoff, !.cause = "read error"]
    /\ UNCHANGED <<now, loginVars, reqVars, geoVars, nodes, resp, mgmtVars, sortVars, lockVars>>

\* lines 320-333: the line is matched and the table updated; back to line 315
TailMatch ==
    /\ tailer.pc = "matching"
    /\ relayMap' = relayAfterLine(relayMap, tailer.line, now)
    /\ tailer' = [TailerAt("reading") EXCEPT
                     !.skipped = Len(FindStringSubmatch(tailer.line)) # 3]
    /\ UNCHANGED <<now, loginVars, reqVars, geoVars, nodes, resp, mgmtVars, sortVars, lockVars>>

\* lines 304, 309, 335: time.Sleep returns and the outer loop goes round
TailWake ==
    /\ tailer.pc = "sleeping"
    /\ tailer' = [tailer EXCEPT !.pc = "attach", !.sleep = 0]
    /\ UNCHANGED <<now, loginVars, reqVars, geoVars, relayVars, mgmtVars, sortVars, lockVars>>

TailStep ==
    \/ \E outcome \in AttachOutcomes : TailAttach(outcome)
    \/ \E line \in LogLines : TailReadLine(line)
    \/ TailReadError
    \/ TailMatch
    \/ TailWake

InitTail ==
    tailer = TailerAt("attach")

\* --------------------------------------------------------------- the mutexes
\* The goroutines of the process and the three mutexes (main.go:59, 61, 87),
\* each Lock a statement of its own.  A goroutine at pc is about to execute the
\* statement pc stands for; an Unlock is part of the step of the statement
\* before it.  getIPLocation is called from getNodes (lines 535, 552).
Handlers == {"h1", "h2"}
Daemons == {"startLogAnalyzer", "startIPCacheCleaner", "startLoginCleanupRoutine"}
Goroutines == Handlers \cup Daemons
Mutexes == {"loginMutex", "cacheMutex", "relayMutex"}
MaxLockFail == 2

LockClient == "ip1"
LockUser == "admin"
LockIP == <<8, 8, 8, 8>>

Idle == [fn |-> "none", pc |-> "idle", key |-> "", entry |-> << >>]
At(fn, pc) == [fn |-> fn, pc |-> pc, key |-> "", entry |-> << >>]

Holder(m) ==
    CASE m = "loginMutex" -> loginMutex
      [] m = "cacheMutex" -> cacheMutex
      [] m = "relayMutex" -> relayMutex

Held(g) == {m \in Mutexes : Holder(m) = g}

\* What each goroutine runs: the three `go` statements of lines 416-418 and
\* the functions a request handler calls.
Calls(g) ==
    CASE g = "startLogAnalyzer" -> {"startLogAnalyzer"}
      [] g = "startIPCacheCleaner" -> {"startIPCacheCleaner"}
      [] g = "startLoginCleanupRoutine" -> {"cleanExpiredLoginAttempts"}
      [] OTHER -> {"checkLoginLock", "recordLoginFail", "clearLoginFail",
                   "getNodes", "getActiveRelays"}

\* The mutex the Lock statement at pc takes, "none" for any other statement
\* (lines 92, 114, 131, 179; 228, 262, 287; 326, 519, 964).
LockStmt(fn, pc) ==
    CASE pc = "lock" /\ fn \in {"checkLoginLock", "recordLoginFail", "clearLoginFail",
                                "cleanExpiredLoginAttempts"} -> "loginMutex"
      [] pc \in {"lock", "relock"} /\ fn = "getIPLocation" -> "cacheMutex"
      [] pc = "lock" /\ fn = "startIPCacheCleaner" -> "cacheMutex"
      [] pc = "lock" /\ fn \in {"getNodes", "getActiveRelays", "startLogAnalyzer"} -> "relayMutex"
      [] OTHER -> "none"

\* The statement after a Lock
AfterLock(fn, pc) ==
    CASE fn = "recordLoginFail" -> "evict"
      [] fn = "getIPLocation" /\ pc = "lock" -> "check"
      [] fn = "getIPLocation" /\ pc = "relock" -> "store"
      [] OTHER -> "body"

\* The mutex of the table the statement at pc reads or writes, "none" if it
\* touches no table.  "hit" is line 233, `return entry.Location`.
Touches(fn, pc) ==
    CASE pc = "body" /\ fn \in {"checkLoginLock", "clearLoginFail",
                                "cleanExpiredLoginAttempts"} -> "loginMutex"
      [] pc \in {"evict", "insert"} /\ fn = "recordLoginFail" -> "loginMutex"
      [] pc \in {"check", "hit", "store"} /\ fn = "getIPLocation" -> "cacheMutex"
      [] pc = "body" /\ fn = "startIPCacheCleaner" -> "cacheMutex"
      [] pc = "body" /\ fn \in {"getNodes", "getActiveRelays", "startLogAnalyzer"} -> "relayMutex"
      [] OTHER -> "none"

SetHolder(m, v) ==
    /\ loginMutex' = IF m = "loginMutex" THEN v ELSE loginMutex
    /\ cacheMutex' = IF m = "cacheMutex" THEN v ELSE cacheMutex
    /\ relayMutex' = IF m = "relayMutex" THEN v ELSE relayMutex

LockFrame ==
    UNCHANGED <<now, callsSinceOk, callsSinceNew, reqVars, IPCacheSize, geo, lastOkAt,
                nodes, resp, mgmtVars, sortVars, tailVars>>

\* A handler begins a call, a sweeper's ticker fires, the tailer has matched a
\* line (line 320): the goroutine stands before the function's Lock.
GoCall(g, fn, key) ==
    /\ gor[g] = Idle
    /\ fn \in Calls(g)
    /\ fn = "recordLoginFail" =>
          \A k \in {LockClient, UserKey(LockUser)} :
             k \in DOMAIN loginAttempts => loginAttempts[k].FailCount < MaxLockFail
    /\ fn = "startLogAnalyzer" =>
          (<<Mac1, Mac2>> \in DOMAIN relayMap => relayMap[<<Mac1, Mac2>>].PktCount < MaxPktCount)
    /\ gor' = [gor EXCEPT ![g] = [At(fn, "lock") EXCEPT !.key = key]]
    /\ UNCHANGED <<loginAttempts, ipCache, relayMap, loginMutex, cacheMutex, relayMutex>>
    /\ LockFrame

\* sync.Mutex.Lock: the caller waits until the mutex is free
GoLock(g) ==
    /\ LockStmt(gor[g].fn, gor[g].pc) # "none"
    /\ Holder(LockStmt(gor[g].fn, gor[g].pc)) = "free"
    /\ SetHolder(LockStmt(gor[g].fn, gor[g].pc), g)
    /\ gor' = [gor EXCEPT ![g].pc = AfterLock(gor[g].fn, gor[g].pc)]
    /\ UNCHANGED <<loginAttempts, ipCache, relayMap>>
    /\ LockFrame

\* lines 117-126 and the deferred Unlock of line 115
GoCheckLoginLock(g) ==
    /\ gor[g].fn = "checkLoginLock" /\ gor[g].pc = "body"
    /\ loginAttempts' = checkLoginLockTbl(loginAttempts, gor[g].key, now)
    /\ SetHolder("loginMutex", "free")
    /\ gor' = [gor EXCEPT ![g] = Idle]
    /\ UNCHANGED <<ipCache, relayMap>>
    /\ LockFrame

\* lines 134-159 followed by an Unlock
GoRecordEvictUnlocking(g) ==
    /\ gor[g].fn = "recordLoginFail" /\ gor[g].pc = "evict"
    /\ loginAttempts' \in Overflow(loginAttempts, now)
    /\ SetHolder("loginMutex", "free")
    /\ gor' = [gor EXCEPT ![g].pc = "insert"]
    /\ UNCHANGED <<ipCache, relayMap>>
    /\ LockFrame

\* lines 134-159: the overflow handling, loginMutex kept
GoRecordEvict(g) ==
    /\ gor[g].fn = "recordLoginFail" /\ gor[g].pc = "evict"
    /\ loginAttempts' \in Overflow(loginAttempts, now)
    /\ gor' = [gor EXCEPT ![g].pc = "insert"]
    /\ UNCHANGED <<ipCache, relayMap, loginMutex, cacheMutex, relayMutex>>
    /\ LockFrame

\* lines 162-174 and the deferred Unlock of line 132
GoRecordInsert(g) ==
    /\ gor[g].fn = "recordLoginFail" /\ gor[g].pc = "insert"
    /\ loginAttempts' = RecordBoth(loginAttempts, LockClient, LockUser, now)
    /\ SetHolder("loginMutex", "free")
    /\ gor' = [gor EXCEPT ![g] = Idle]
    /\ UNCHANGED <<ipCache, relayMap>>
    /\ LockFrame

\* lines 181-182 and the deferred Unlock of line 180
GoClearLoginFail(g) ==
    /\ gor[g].fn = "clearLoginFail" /\ gor[g].pc = "body"
    /\ loginAttempts' = clearLoginFail(loginAttempts, LockClient, LockUser)
    /\ SetHolder("loginMutex", "free")
    /\ gor' = [gor EXCEPT ![g] = Idle]
    /\ UNCHANGED <<ipCache, relayMap>>
    /\ LockFrame

\* lines 95-101 and the deferred Unlock of line 93
GoCleanExpired(g) ==
    /\ gor[g].fn = "cleanExpiredLoginAttempts" /\ gor[g].pc = "body"
    /\ loginAttempts' = cleanExpiredLoginAttempts(loginAttempts, now)
    /\ SetHolder("loginMutex", "free")
    /\ gor' = [gor EXCEPT ![g] = Idle]
    /\ UNCHANGED <<ipCache, relayMap>>
    /\ LockFrame

\* lines 520-524 with no Unlock after them
GoRelayKeysHolding(g) ==
    /\ gor[g].fn = "getNodes" /\ gor[g].pc = "body"
    /\ gor' = [gor EXCEPT ![g].pc = "peers"]
    /\ UNCHANGED <<loginAttempts, ipCache, relayMap, loginMutex, cacheMutex, relayMutex>>
    /\ LockFrame

\* lines 520-525: getNodes ranges over the keys of the relay table and unlocks
GoRelayKeys(g) ==
    /\ gor[g].fn = "getNodes" /\ gor[g].pc = "body"
    /\ SetHolder("relayMutex", "free")
    /\ gor' = [gor EXCEPT ![g].pc = "peers"]
    /\ UNCHANGED <<loginAttempts, ipCache, relayMap>>
    /\ LockFrame

\* lines 535, 552: getNodes calls getIPLocation for a peer's public address
GoResolve(g) ==
    /\ gor[g].fn = "getNodes" /\ gor[g].pc = "peers"
    /\ gor' = [gor EXCEPT ![g] = At("getIPLocation", "lock")]
    /\ UNCHANGED <<loginAttempts, ipCache, relayMap, loginMutex, cacheMutex, relayMutex>>
    /\ LockFrame

\* lines 527-573: no peer is left and getNodes returns
GoNodesReturn(g) ==
    /\ gor[g].fn = "getNodes" /\ gor[g].pc = "peers"
    /\ gor' = [gor EXCEPT ![g] = Idle]
    /\ UNCHANGED <<loginAttempts, ipCache, relayMap, loginMutex, cacheMutex, relayMutex>>
    /\ LockFrame

\* lines 229-238: the map lookup; Unlock at 232 on a fresh entry, at 238 otherwise
GoCacheCheck(g) ==
    /\ gor[g].fn = "getIPLocation" /\ gor[g].pc = "check"
    /\ IF cacheHit(ipCache, LockIP, now)
       THEN /\ gor' = [gor EXCEPT ![g].pc = "hit", ![g].entry = <<ipCache[LockIP]>>]
            /\ ipCache' = ipCache
       ELSE /\ gor' = [gor EXCEPT ![g].pc = "lookup"]
            /\ ipCache' = Drop(ipCache, {LockIP})
    /\ SetHolder("cacheMutex", "free")
    /\ UNCHANGED <<loginAttempts, relayMap>>
    /\ LockFrame

\* line 233: `return entry.Location`, after the Unlock of line 232
GoCacheHit(g) ==
    /\ gor[g].fn = "getIPLocation" /\ gor[g].pc = "hit"
    /\ gor' = [gor EXCEPT ![g] = At("getNodes", "peers")]
    /\ UNCHANGED <<loginAttempts, ipCache, relayMap, loginMutex, cacheMutex, relayMutex>>
    /\ LockFrame

\* lines 240-261: the request to the lookup service; a failure returns
GoLookup(g, outcome) ==
    /\ gor[g].fn = "getIPLocation" /\ gor[g].pc = "lookup"
    /\ gor' = [gor EXCEPT ![g] = IF outcome = "success"
                                 THEN At("getIPLocation", "relock")
                                 ELSE At("getNodes", "peers")]
    /\ UNCHANGED <<loginAttempts, ipCache, relayMap, loginMutex, cacheMutex, relayMutex>>
    /\ LockFrame

\* lines 263-280: evict, insert, Unlock and return
GoCacheStore(g) ==
    /\ gor[g].fn = "getIPLocation" /\ gor[g].pc = "store"
    /\ ipCache' \in cacheInsert(ipCache, LockIP, ServiceAnswer(LockIP), now)
    /\ SetHolder("cacheMutex", "free")
    /\ gor' = [gor EXCEPT ![g] = At("getNodes", "peers")]
    /\ UNCHANGED <<loginAttempts, relayMap>>
    /\ LockFrame

\* lines 288-294: the cleaner's pass and its Unlock
GoCleanCache(g) ==
    /\ gor[g].fn = "startIPCacheCleaner" /\ gor[g].pc = "body"
    /\ ipCache' = cleanIPCache(ipCache, now)
    /\ SetHolder("cacheMutex", "free")
    /\ gor' = [gor EXCEPT ![g] = Idle]
    /\ UNCHANGED <<loginAttempts, relayMap>>
    /\ LockFrame

\* lines 965-969 and the deferred Unlock of line 964
GoActiveRelays(g) ==
    /\ gor[g].fn = "getActiveRelays" /\ gor[g].pc = "body"
    /\ relayMap' = Drop(relayMap, {k \in DOMAIN relayMap : ~relayActive(relayMap[k], now)})
    /\ SetHolder("relayMutex", "free")
    /\ gor' = [gor EXCEPT ![g] = Idle]
    /\ UNCHANGED <<loginAttempts, ipCache>>
    /\ LockFrame

\* lines 327-332: the tailer's update and its Unlock
GoObserve(g) ==
    /\ gor[g].fn = "startLogAnalyzer" /\ gor[g].pc = "body"
    /\ relayMap' = relayObserve(relayMap, Mac1, Mac2, now)
    /\ SetHolder("relayMutex", "free")
    /\ gor' = [gor EXCEPT ![g] = Idle]
    /\ UNCHANGED <<loginAttempts, ipCache>>
    /\ LockFrame

\* The statement goroutine g executes next, whichever it is.
GoStep(g) ==
    \/ GoLock(g)
    \/ GoCheckLoginLock(g)
    \/ GoRecordEvict(g)
    \/ GoRecordInsert(g)
    \/ GoClearLoginFail(g)
    \/ GoCleanExpired(g)
    \/ GoRelayKeys(g)
    \/ GoResolve(g)
    \/ GoNodesReturn(g)
    \/ GoCacheCheck(g)
    \/ GoCacheHit(g)
    \/ \E outcome \in {"success", "transport error"} : GoLookup(g, outcome)
    \/ GoCacheStore(g)
    \/ GoCleanCache(g)
    \/ GoActiveRelays(g)
    \/ GoObserve(g)

InitLocks ==
    /\ loginMutex = "free"
    /\ relayMutex = "free"
    /\ gor = [g \in Goroutines |-> Idle]

\* ------------------------------------------------------------ node inventory
\* createNode (lines 689-793) and deleteNode (795-797) on the rows of the node
\* table.  A row carries DeletedAt as a flag: deleteNode deletes softly, the
\* row stays in the table and in its unique indexes.
MaxNodeID == 3
\* The highest host number an assigned address reaches.
MaxHost == 3

\* The communities of the database and the range of each; c2 has none.
KnownCommunities == {"c1", "c2"}
NoRange == << >>
RangeOf(community) == IF community = "c1" THEN <<10, 0, 0, 0>> ELSE NoRange

\* ipnet.Contains for a /24
Contains24(base, ip) == \A i \in 1..3 : ip[i] = base[i]

\* lines 676-686
isValidMac(mac) ==
    LET cleaned == SelectSeq([i \in 1..Len(mac) |-> Upper(mac[i])],
                             LAMBDA c : c \notin {":", "-"})
    IN  /\ Len(cleaned) = 12
        /\ \A i \in 1..Len(cleaned) : IsHex(cleaned[i]) /\ cleaned[i] = Upper(cleaned[i])

\* line 720: ToUpper(ReplaceAll(ReplaceAll(mac, ":", ""), "-", ""))
CanonMacNoHyphen(mac) ==
    SelectSeq([i \in 1..Len(mac) |-> Upper(mac[i])], LAMBDA c : c \notin {":", "-"})

\* n2n_utils.go lines 25-35 on the four bytes of an address
NextIP(ip) ==
    IF ip[4] < 255 THEN [ip EXCEPT ![4] = @ + 1]
    ELSE IF ip[3] < 255 THEN [ip EXCEPT ![4] = 0, ![3] = @ + 1]
    ELSE IF ip[2] < 255 THEN [ip EXCEPT ![4] = 0, ![3] = 0, ![2] = @ + 1]
    ELSE [ip EXCEPT ![4] = 0, ![3] = 0, ![2] = 0, ![1] = (@ + 1) % 256]

DigitChar(d) ==
    CASE d = 0 -> "0" [] d = 1 -> "1" [] d = 2 -> "2" [] d = 3 -> "3" [] d = 4 -> "4"
      [] d = 5 -> "5" [] d = 6 -> "6" [] d = 7 -> "7" [] d = 8 -> "8" [] OTHER -> "9"

\* The decimal text of a byte.
ByteText(n) ==
    IF n < 10 THEN <<DigitChar(n)>>
    ELSE IF n < 100 THEN <<DigitChar(n \div 10), DigitChar(n % 10)>>
    ELSE <<DigitChar(n \div 100), DigitChar((n \div 10) % 10), DigitChar(n % 10)>>

\* net.IP.String of a 4-in-6 address: the dotted quad
IPString(ip) ==
    ByteText(ip[1]) \o <<".">> \o ByteText(ip[2]) \o <<".">> \o ByteText(ip[3])
        \o <<".">> \o ByteText(ip[4])

\* lines 751-773: the address the handler assigns in a community with a range
AssignedIP(rows, community) ==
    LET base == RangeOf(community)
        parsed == {ParseIP(rows[i].IPAddress) :
                     i \in {j \in 1..Len(rows) :
                              ~rows[j].DeletedAt /\ rows[j].Community = community}} \ {NoIP}
    IN  IF parsed = {} THEN IPString(NextIP(NextIP(base)))
        ELSE IPString(NextIP(CHOOSE m \in parsed : \A o \in parsed : CompareIP(m, o) >= 0))

\* line 787: db.Unscoped().Where("mac_address = ? OR ip_address = ?").Delete
UnscopedDelete(rows, mac, ip) ==
    SelectSeq(rows, LAMBDA r : ~(r.MacAddress = mac \/ r.IPAddress = ip))

\* The primary key and the two unique indexes refuse the row.
Refused(rows, n) ==
    \E i \in 1..Len(rows) :
        \/ rows[i].ID = n.ID
        \/ rows[i].MacAddress = n.MacAddress
        \/ rows[i].IPAddress = n.IPAddress

\* The key the table gives a row that brings none: above every key in use.
NewID(rows) ==
    IF rows = << >> THEN 1
    ELSE 1 + (CHOOSE m \in {rows[i].ID : i \in 1..Len(rows)} :
                 \A i \in 1..Len(rows) : rows[i].ID <= m)

\* line 788: db.Create; the rows stay in the order of their keys
Create(rows, n) ==
    SelectSeq(rows, LAMBDA r : r.ID < n.ID) \o <<n>> \o SelectSeq(rows, LAMBDA r : r.ID > n.ID)

\* What a createNode call answers and leaves in the table.
Answer(status, rows) == [status |-> status, rows |-> rows]

\* lines 714-728: the hardware address the row gets, << >> if there is none
MacOf(p, generated) ==
    IF p.MacAddress # << >>
    THEN (IF isValidMac(p.MacAddress) THEN CanonMacNoHyphen(p.MacAddress) ELSE << >>)
    ELSE IF generated = << >> THEN << >> ELSE CanonMac(generated)

\* lines 731-774: the virtual address the row gets
IPOf(rows, p) ==
    IF p.IPAddress # << >> THEN p.IPAddress
    ELSE IF RangeOf(p.Community) # NoRange THEN AssignedIP(rows, p.Community)
    ELSE << >>

\* lines 689-793
createNode(rows, p, generated) ==
    IF TrimSpace(p.Name) = << >> THEN Answer(400, rows)
    ELSE IF p.Community \notin KnownCommunities THEN Answer(400, rows)
    ELSE IF p.MacAddress # << >> /\ ~isValidMac(p.MacAddress) THEN Answer(400, rows)
    ELSE IF p.MacAddress = << >> /\ generated = << >> THEN Answer(500, rows)
    ELSE IF p.IPAddress # << >> /\ ParseIP(p.IPAddress) = NoIP THEN Answer(400, rows)
    ELSE IF /\ p.IPAddress # << >>
            /\ RangeOf(p.Community) # NoRange
            /\ ~Contains24(RangeOf(p.Community), ParseIP(p.IPAddress))
         THEN Answer(400, rows)
    ELSE IF p.Route \in {"bad network", "bad gateway"} THEN Answer(400, rows)
    ELSE LET mac == MacOf(p, generated)
             ip == IPOf(rows, p)
             left == UnscopedDelete(rows, mac, ip)
             n == [ID |-> IF p.ID = 0 THEN NewID(left) ELSE p.ID,
                   Name |-> p.Name, IPAddress |-> ip, MacAddress |-> mac,
                   Community |-> p.Community, DeletedAt |-> FALSE]
         IN  IF Refused(left, n) THEN Answer(500, left)
             ELSE Answer(200, Create(left, n))

\* line 796: db.Delete(&models.Node{}, id), a soft delete
deleteNode(rows, id) ==
    [i \in 1..Len(rows) |->
        IF rows[i].ID = id THEN [rows[i] EXCEPT !.DeletedAt = TRUE] ELSE rows[i]]

\* The request bodies and the outcomes of GenerateRandomMac (<< >>: an error).
MappedPrefix == <<":", ":", "f", "f", "f", "f", ":">>
IP_1Mapped == MappedPrefix \o IP_1
IP_Outside == <<"1", ".", "1", ".", "1", ".", "1">>
IP_Malformed == <<"1", "0", ".", "0">>
GeneratedMacs == {<< >>, LogMac1}
\* The bodies that pass every validation, and one body for each validation
\* that rejects.
PlainBody == [ID |-> 0, Name |-> <<"n">>, Community |-> "c1", MacAddress |-> Mac2,
              IPAddress |-> IP_1, Route |-> "valid"]
ValidBodies ==
    [ID : {0, 1}, Name : {<<"n">>}, Community : KnownCommunities,
     MacAddress : {<< >>, LogMac1, LogHyphenMac1, Mac2},
     IPAddress : {<< >>, IP_1, IP_1Mapped}, Route : {"none"}] \cup {PlainBody}
RejectedBodies ==
    {[PlainBody EXCEPT !.Name = <<" ">>],
     [PlainBody EXCEPT !.Community = "c9"],
     [PlainBody EXCEPT !.MacAddress = <<"x">>],
     [PlainBody EXCEPT !.IPAddress = IP_Malformed],
     [PlainBody EXCEPT !.IPAddress = IP_Outside],
     [PlainBody EXCEPT !.Route = "bad network"],
     [PlainBody EXCEPT !.Route = "bad gateway"]}
NodeBodies == ValidBodies \cup RejectedBodies

CreateNode(p, generated) ==
    /\ resp = NoResp
    /\ LET r == createNode(nodes, p, generated)
       IN  /\ \A i \in 1..Len(r.rows) :
                 /\ r.rows[i].ID <= MaxNodeID
                 /\ ParseIP(r.rows[i].IPAddress) # NoIP
                       => ParseIP(r.rows[i].IPAddress)[4] <= MaxHost
           /\ nodes' = r.rows
           /\ resp' = [handler |-> "createNode", status |-> r.status,
                       removed |-> Len(nodes) + (IF r.status = 200 THEN 1 ELSE 0)
                                     - Len(r.rows)]
    /\ UNCHANGED <<now, loginVars, reqVars, geoVars, relayMap, mgmtVars, sortVars, tailVars, lockVars>>

DeleteNode(id) ==
    /\ resp = NoResp
    /\ nodes' = deleteNode(nodes, id)
    /\ resp' = [handler |-> "deleteNode", status |-> 200]
    /\ UNCHANGED <<now, loginVars, reqVars, geoVars, relayMap, mgmtVars, sortVars, tailVars, lockVars>>

\* The node table as the first start of the program finds it.
InitNoNodes ==
    /\ now = 1
    /\ InitLogin
    /\ InitReq
    /\ InitGeo
    /\ IPCacheSize = 1
    /\ relayMap = << >>
    /\ nodes = << >>
    /\ resp = NoResp
    /\ InitMgmt
    /\ InitTail
    /\ InitLocks
    /\ sortPc = "input"
    /\ sortRes = << >>

\* ------------------------------------------------------- the sort of getNodes
\* sort.Slice of lines 563-572 on any slice of entries.
MaxEntries == 3

\* "9"
Txt9 == <<"9">>
\* "x"
TxtX == <<"x">>
\* The virtual addresses entries carry: parsable ones, the empty string and
\* texts that are no address.
AddressTexts == {<< >>, IP_1, IP_2, IP_10, Txt9, TxtX}

SortInputs == {[i \in 1..Len(q) |-> [ip_address |-> q[i]]] : q \in SeqsUpTo(AddressTexts, MaxEntries)}

\* lines 563-572
SortSlice ==
    /\ sortPc = "input"
    /\ sortPc' = "sorted"
    /\ sortRes' = SortByAddress(sortRes)
    /\ UNCHANGED <<now, loginVars, reqVars, geoVars, relayVars, mgmtVars, tailVars, lockVars>>

InitSort ==
    /\ sortPc = "input"
    /\ sortRes = << >>

Init ==
    /\ now = 1
    /\ InitLogin
    /\ InitReq
    /\ InitGeo
    /\ IPCacheSize = 1
    /\ InitRelay
    /\ InitMgmt
    /\ InitTail
    /\ InitLocks
    /\ InitSort

\* Every configured cache size from 1 up.
InitAnyCacheSize ==
    /\ now = 1
    /\ InitLogin
    /\ InitReq
    /\ InitGeo
    /\ IPCacheSize \in 1..MaxCacheSize
    /\ InitRelay
    /\ InitMgmt
    /\ InitTail
    /\ InitLocks
    /\ InitSort

NextLogin ==
    \/ \E ip \in ClientIPs, u \in Usernames : RecordFailure(ip, u)
    \/ \E ip \in ClientIPs, u \in Usernames : RecordSuccess(ip, u)
    \/ \E k \in LoginKeys : CheckLock(k)
    \/ Sweep
    \/ Tick
    \/ IdleHour

SpecLogin == Init /\ [][NextLogin]_vars

NextLoginReq ==
    \/ \E r \in Reqs, ip \in ClientIPs, u \in Usernames, pw \in BOOLEAN :
          LoginBegin(r, ip, u, pw)
    \/ \E r \in Reqs : LoginCheckIP(r)
    \/ \E r \in Reqs : LoginCheckUser(r)
    \/ \E r \in Reqs : LoginVerify(r)
    \/ \E r \in Reqs : LoginRecordFail(r)
    \/ \E r \in Reqs : LoginClear(r)
    \/ Sweep
    \/ Tick

SpecLoginReq == Init /\ [][NextLoginReq]_vars

LookupOutcomes == {"success", "transport error", "undecodable body", "status not success"}

NextGeo ==
    \/ \E g \in Resolvers, ip \in GeoIPs : ResolveBegin(g, ip)
    \/ \E g \in Resolvers, outcome \in LookupOutcomes : ResolveLookup(g, outcome)
    \/ \E g \in Resolvers : ResolveInsert(g)
    \/ CacheCleaner
    \/ Tick

SpecGeo == InitAnyCacheSize /\ [][NextGeo]_vars

NextGeoLock ==
    \/ \E g \in Resolvers, ip \in GeoIPs : LockForCheck(g, ip)
    \/ \E g \in Resolvers : CheckCache(g)
    \/ \E g \in Resolvers, outcome \in LookupOutcomes : ResolveLookup(g, outcome)
    \/ \E g \in Resolvers : LockForInsert(g)
    \/ \E g \in Resolvers : StoreEntry(g)
    \/ CleanerLock
    \/ CleanerPass
    \/ Tick

SpecGeoLock == InitAnyCacheSize /\ [][NextGeoLock]_vars

NextRelay ==
    \/ \E src, dst \in LogMacs : src # dst /\ LogForward(src, dst)
    \/ GetActiveRelays
    \/ \E edgeResult \in EdgeResults : GetNodes(edgeResult)
    \/ Respond
    \/ RelayTick

SpecRelay == Init /\ [][NextRelay]_vars

\* The tailer, the relay handlers and the clock.
NextTail ==
    \/ TailStep
    \/ GetActiveRelays
    \/ \E edgeResult \in {r \in EdgeResults : r.err} : GetNodes(edgeResult)
    \/ Respond
    \/ RelayTick

SpecTail == Init /\ [][NextTail]_vars

\* time.Sleep returns: a tailer that sleeps goes on.
SpecTailFair == SpecTail /\ WF_vars(TailWake)

\* The node handlers.
NextLocks ==
    \/ \E g \in Goroutines : \E fn \in Calls(g) :
          \E key \in (IF fn = "checkLoginLock" THEN {LockClient, UserKey(LockUser)} ELSE {""}) :
             GoCall(g, fn, key)
    \/ \E g \in Goroutines : GoStep(g)

SpecLocks == Init /\ [][NextLocks]_vars

NextNodes ==
    \/ \E p \in NodeBodies :
          \E generated \in IF p.MacAddress = << >> THEN GeneratedMacs ELSE {<< >>} :
             CreateNode(p, generated)
    \/ \E id \in 1..MaxNodeID : DeleteNode(id)
    \/ Respond

SpecNodes == InitNoNodes /\ [][NextNodes]_vars

NextMgmt ==
    \/ \E ok \in BOOLEAN : QueryDial(ok)
    \/ \E ok \in BOOLEAN, answer \in DaemonAnswers : QueryWrite(ok, answer)
    \/ QueryRead
    \/ \E delay \in 1..firstReadDeadline : QueryReadMore(delay)
    \/ QueryReadError
    \/ GetEdgeInfoParse
    \/ GetOnlineMacsReturn
    \/ QueryReturn

SpecMgmt == Init /\ [][NextMgmt]_vars

\* The records a key can have at time t: recordLoginFail leaves a count of 1
\* or more and the time of the failure, and a lock-expiry lockDuration after
\* it once the count is at the threshold; below the threshold the
\* lock-expiry is zero or that of an earlier lock, which checkLoginLock had
\* reset once it ran out; a count of 0 is such a reset with no failure since.
RecordsAt(t) ==
    {r \in [FailCount : 0..maxLoginAttempts, LastFail : 1..t,
            LockUntil : 0..(t + lockDuration)] :
        IF r.FailCount >= maxLoginAttempts THEN r.LockUntil = r.LastFail + lockDuration
        ELSE IF r.FailCount = 0
        THEN r.LockUntil = r.LastFail + lockDuration /\ r.LockUntil <= t
        ELSE \/ r.LockUntil = ZeroTime
             \/ r.LockUntil > lockDuration /\ r.LockUntil <= r.LastFail}

\* Every table the sweep can find within the first MaxTime ticks.
InitAnyTable ==
    /\ now \in 1..MaxTime
    /\ \E keys \in SUBSET LoginKeys : loginAttempts \in [keys -> RecordsAt(now)]
    /\ callsSinceOk = [k \in LoginKeys |-> 0]
    /\ callsSinceNew = [k \in LoginKeys |-> 0]
    /\ InitReq
    /\ InitGeo
    /\ IPCacheSize = 1
    /\ InitRelay
    /\ InitMgmt
    /\ InitTail
    /\ InitLocks
    /\ InitSort

\* line 106: the ticker's period, 10 minutes
sweepPeriod == 2

\* lines 106-107: the routine waits for the ticker; no failure is recorded
\* meanwhile
TickerWait ==
    /\ now <= MaxTime + loginRecordExpiry
    /\ now' = now + sweepPeriod
    /\ UNCHANGED <<loginVars, reqVars, geoVars, relayVars, mgmtVars, sortVars, tailVars, lockVars>>

\* The cleanup routine on its own: the ticker fires and the sweep runs.
NextSweep ==
    \/ TickerWait
    \/ Sweep

SpecSweep == InitAnyTable /\ [][NextSweep]_vars

\* Every slice of entries the sort can be given.
InitAnySlice ==
    /\ now = 1
    /\ InitLogin
    /\ InitReq
    /\ InitGeo
    /\ IPCacheSize = 1
    /\ InitRelay
    /\ InitMgmt
    /\ InitTail
    /\ InitLocks
    /\ sortPc = "input"
    /\ sortRes \in SortInputs

NextSort == SortSlice

SpecSort == InitAnySlice /\ [][NextSort]_vars

\* ------------------------------------------------- login throttle: properties

\* C1: the login table never tracks more than maxLoginRecords keys.
C1_TrackedKeysWithinCap ==
    Cardinality(DOMAIN loginAttempts) <= maxLoginRecords

\* What checkLock must report on a key that was locked by a failure at `at`.
LockedSince(key, at) ==
    /\ key \in DOMAIN loginAttempts
    /\ LET res == checkLoginLockRet(loginAttempts, key, now)
       IN  IF now < at + lockDuration
           THEN res[1] /\ res[2] > 0 /\ res[2] <= lockDuration
                /\ res[2] = at + lockDuration - now
           ELSE res = <<FALSE, 0>>

KeyLocked(k) ==
    /\ k \in DOMAIN loginAttempts
    /\ loginAttempts[k].FailCount >= maxLoginAttempts
    /\ now < loginAttempts[k].LockUntil

\* C2: no login request that carries a locked key is past the two lock
\* checks, on its way to credential verification or to recording a failure.
C2_LockedKeyNeverVerified ==
    \A r \in Reqs :
        reqPc[r] \in {"verify", "failUser", "failPassword", "clear"}
           => ~KeyLocked(reqArg[r].ip) /\ ~KeyLocked(UserKey(reqArg[r].u))

\* C38: in every reachable state of the login table a record whose failure
\* count is at least 5 has a lock-expiry at least lockDuration later than its
\* last-failure time.
C38_ThresholdRecordHasLockExpiry ==
    \A k \in DOMAIN loginAttempts :
        loginAttempts[k].FailCount >= maxLoginAttempts
           => loginAttempts[k].LockUntil >= loginAttempts[k].LastFail + lockDuration

C39_CountBelowThresholdNeverDecays ==
    /\ [](\A key \in LoginKeys :
             LET after == checkLoginLockTbl(loginAttempts, key, now)
             IN  \A k \in DOMAIN loginAttempts :
                    loginAttempts[k].FailCount < maxLoginAttempts => after[k] = loginAttempts[k])
    /\ [](\A k \in DOMAIN loginAttempts :
             IF callsSinceNew[k] < maxLoginAttempts
             THEN loginAttempts[k].FailCount = callsSinceNew[k]
             ELSE loginAttempts[k].LockUntil >= lockDuration + 1)
    /\ [][/\ now' # now => loginAttempts' = loginAttempts
          /\ \A k \in DOMAIN loginAttempts :
                (/\ k \in DOMAIN loginAttempts'
                 /\ loginAttempts[k].FailCount < maxLoginAttempts
                 /\ loginAttempts'[k].FailCount # loginAttempts[k].FailCount) =>
                   /\ loginAttempts'[k].LastFail = now
                   /\ \/ loginAttempts'[k].FailCount = loginAttempts[k].FailCount + 1
                      \/ loginAttempts'[k].FailCount = 1 /\ callsSinceNew'[k] = 1]_vars

\* A count of 4 that has stood for more than an hour.
C39_Witness ==
    \E k \in DOMAIN loginAttempts :
        /\ loginAttempts[k].FailCount = maxLoginAttempts - 1
        /\ now - loginAttempts[k].LastFail > loginRecordExpiry

\* Request r is answered 429 by one of the two lock checks.
RejectedAsLocked(r) == reqPc[r] \in {"checkIP", "checkUser"} /\ reqPc'[r] = "idle"

\* Request r passes the client-address check and goes on to the account check.
PassedAddressCheck(r) == reqPc[r] = "checkIP" /\ reqPc'[r] = "checkUser"

\* C37: a login request that is rejected as locked, by the client-address
\* check or by the account check, increments no failure count, changes no
\* last-failure time and extends no lock-expiry: the rejecting check leaves
\* the whole table as it was, and the address check that a request rejected
\* at the account check passed before changes no record's times and raises
\* no count.
C37_RejectedAttemptLeavesLock ==
    /\ [][\A r \in Reqs : RejectedAsLocked(r) => loginAttempts' = loginAttempts]_vars
    /\ [][\A r \in Reqs :
             PassedAddressCheck(r) =>
                /\ DOMAIN loginAttempts' = DOMAIN loginAttempts
                /\ \A k \in DOMAIN loginAttempts :
                      /\ loginAttempts'[k].FailCount <= loginAttempts[k].FailCount
                      /\ loginAttempts'[k].LastFail = loginAttempts[k].LastFail
                      /\ loginAttempts'[k].LockUntil = loginAttempts[k].LockUntil]_vars

\* A request has passed the address check, its address not locked, and stands
\* at the account check with its account locked.
C37_Witness ==
    \E r \in Reqs :
        /\ reqPc[r] = "checkUser"
        /\ KeyLocked(UserKey(reqArg[r].u))
        /\ ~KeyLocked(reqArg[r].ip)

\* C4: a key whose lock has not expired leaves the table only by a
\* recordSuccess for that key.
C4_LockedKeyStays ==
    [][\A k \in DOMAIN loginAttempts :
          (now < loginAttempts[k].LockUntil /\ k \notin DOMAIN loginAttempts')
             => \E ip \in ClientIPs, u \in Usernames :
                   k \in {ip, UserKey(u)} /\ RecordSuccess(ip, u)]_vars

\* C17: after recordSuccess(clientKey, accountKey), whatever the table held,
\* neither key has a record and checkLock on either reports unlocked with
\* remaining 0; the records of all other keys are unchanged.
C17_SuccessClearsBothKeys ==
    \A ip \in ClientIPs, u \in Usernames :
        LET after == clearLoginFail(loginAttempts, ip, u)
        IN  /\ \A k \in {ip, UserKey(u)} :
                  /\ k \notin DOMAIN after
                  /\ checkLoginLockRet(after, k, now) = <<FALSE, 0>>
            /\ DOMAIN after = DOMAIN loginAttempts \ {ip, UserKey(u)}
            /\ \A k \in DOMAIN after : after[k] = loginAttempts[k]

\* The client key cleared by a success under another account while the
\* record of a locked account stays.
C17_Witness ==
    \E ip \in ClientIPs, k \in DOMAIN loginAttempts :
        /\ ip \notin DOMAIN loginAttempts
        /\ callsSinceOk[ip] = 0
        /\ callsSinceOk[k] >= maxLoginAttempts
        /\ loginAttempts[k].FailCount >= maxLoginAttempts
        /\ now < loginAttempts[k].LockUntil

\* The failure count stored under a key, a missing record counting as zero.
CountOf(tbl, k) == IF k \in DOMAIN tbl THEN tbl[k].FailCount ELSE 0

\* C18: each recordFailure call raises the failure counts stored under the
\* client key and under the account key by exactly one, also when the call
\* runs the overflow eviction; it sets lock-expiry to now + lockDuration on
\* each key whose count is then at least 5 and reports locked exactly when
\* one of the two counts is.
C18_FailureCountsUpByOne ==
    [][\A ip \in ClientIPs, u \in Usernames :
          RecordFailure(ip, u) =>
             /\ \A k \in {ip, UserKey(u)} :
                   /\ CountOf(loginAttempts', k) = CountOf(loginAttempts, k) + 1
                   /\ loginAttempts'[k].FailCount >= maxLoginAttempts
                         => loginAttempts'[k].LockUntil = now + lockDuration
             /\ recordLoginFailRet(loginAttempts', ip, u)[1]
                   <=> \E k \in {ip, UserKey(u)} :
                          loginAttempts'[k].FailCount >= maxLoginAttempts]_vars

\* What checkLock on key k leaves alone when it turns the table into `after`:
\* the keys of the table, every other record, and the lock-expiry and
\* last-failure time of every record.
CheckLockFrame(after, k) ==
    /\ DOMAIN after = DOMAIN loginAttempts
    /\ \A j \in DOMAIN loginAttempts :
          /\ after[j].LockUntil = loginAttempts[j].LockUntil
          /\ after[j].LastFail = loginAttempts[j].LastFail
          /\ j # k => after[j] = loginAttempts[j]

\* What checkLock does on a locked key: nothing, and it returns the time left.
CheckLockOnLocked(after, k) ==
    /\ after[k] = loginAttempts[k]
    /\ checkLoginLockRet(loginAttempts, k, now) = <<TRUE, loginAttempts[k].LockUntil - now>>

\* C19 as stated: checkLock adds and deletes no record and changes no
\* lock-expiry or last-failure time; on a key whose lock was set and has
\* expired it resets the failure count to zero and reports unlocked; on a
\* locked key it changes nothing and returns the time left.
C19_CheckLockResetsExpired ==
    \A k \in LoginKeys :
        LET after == checkLoginLockTbl(loginAttempts, k, now)
        IN  /\ CheckLockFrame(after, k)
            /\ k \in DOMAIN loginAttempts =>
                  IF now < loginAttempts[k].LockUntil
                  THEN CheckLockOnLocked(after, k)
                  ELSE /\ checkLoginLockRet(loginAttempts, k, now) = <<FALSE, 0>>
                       /\ loginAttempts[k].LockUntil # ZeroTime => after[k].FailCount = 0

\* C19 amended: as above, but the reset to zero is that of a count at or
\* above the threshold; a count below the threshold is left as it is, also
\* when the record carries the expiry of an earlier lock.
C19_CheckLockResetsExpiredAtThreshold ==
    \A k \in LoginKeys :
        LET after == checkLoginLockTbl(loginAttempts, k, now)
        IN  /\ CheckLockFrame(after, k)
            /\ k \in DOMAIN loginAttempts =>
                  IF now < loginAttempts[k].LockUntil
                  THEN CheckLockOnLocked(after, k)
                  ELSE /\ checkLoginLockRet(loginAttempts, k, now) = <<FALSE, 0>>
                       /\ after[k].FailCount =
                             IF loginAttempts[k].FailCount >= maxLoginAttempts
                             THEN 0 ELSE loginAttempts[k].FailCount

\* A record whose count checkLock reset after its lock ran out, lock-expiry
\* and last-failure time as the locking failure left them.
C19_Witness ==
    \E k \in DOMAIN loginAttempts :
        /\ loginAttempts[k].FailCount = 0
        /\ loginAttempts[k].LockUntil # ZeroTime
        /\ loginAttempts[k].LockUntil <= now
        /\ loginAttempts[k].LockUntil = loginAttempts[k].LastFail + lockDuration

\* What the overflow handling must leave when `stale` are the entries its
\* first round has to delete: below the cap nothing is removed; at the cap
\* every stale entry goes, force-eviction happens only if the table is still
\* at the cap, takes it just below the cap, and removes only entries not
\* later in last-failure time than any entry that stays.
OverflowOrder(stale) ==
    \A kept \in Overflow(loginAttempts, now) :
        LET purged == Drop(loginAttempts, stale)
            evicted == DOMAIN purged \ DOMAIN kept
        IN  IF Cardinality(DOMAIN loginAttempts) < maxLoginRecords
            THEN kept = loginAttempts
            ELSE /\ DOMAIN kept \subseteq DOMAIN purged
                 /\ \A k \in DOMAIN kept : kept[k] = loginAttempts[k]
                 /\ Cardinality(DOMAIN purged) < maxLoginRecords => evicted = {}
                 /\ evicted # {} =>
                       Cardinality(DOMAIN kept) = maxLoginRecords - 1
                 /\ \A e \in evicted : \A k \in DOMAIN kept :
                       purged[e].LastFail <= kept[k].LastFail

\* C20 as stated: a recordFailure that finds the table at the cap first
\* deletes every entry whose lock has expired (checkLock reports it unlocked)
\* and whose last failure is more than 5 minutes old; only if the table is
\* still at the cap does it force-evict, each time an entry with the earliest
\* last-failure time; no entry is force-evicted while such an entry remains.
C20_OverflowPurgesUnlocked ==
    OverflowOrder({k \in DOMAIN loginAttempts :
                     /\ ~checkLoginLockRet(loginAttempts, k, now)[1]
                     /\ now - loginAttempts[k].LastFail > overflowStaleAfter})

\* C20 amended: the same with the first round deleting the entries whose
\* lock-expiry is strictly in the past (or was never set) and whose last
\* failure is more than 5 minutes old.
C20_OverflowPurgesThenEvictsOldest ==
    OverflowOrder({k \in DOMAIN loginAttempts :
                     /\ now > loginAttempts[k].LockUntil
                     /\ now - loginAttempts[k].LastFail > overflowStaleAfter})

\* Within the first hour a key that had failures and no success has lost its
\* record: the overflow handling removed it.
C20_Witness ==
    /\ now <= MaxTime
    /\ \E k \in LoginKeys :
          /\ k \notin DOMAIN loginAttempts
          /\ callsSinceOk[k] > 0
          /\ callsSinceNew[k] = 0

\* The entries a sweep at this moment has to remove: lock-expiry in the past
\* and last failure more than loginRecordExpiry ago.
SweepDue ==
    {k \in DOMAIN loginAttempts :
        /\ loginAttempts[k].LockUntil < now
        /\ now - loginAttempts[k].LastFail > loginRecordExpiry}

\* C21: a run of the background sweep removes exactly the entries whose
\* lock-expiry is in the past and whose last failure is more than
\* loginRecordExpiry old, and leaves every other entry, every locked one among
\* them, as it was; the sweep can always run again.
C21_SweepRemovesExpiredAndStale ==
    LET after == cleanExpiredLoginAttempts(loginAttempts, now)
    IN  /\ DOMAIN after = DOMAIN loginAttempts \ SweepDue
        /\ \A k \in DOMAIN after : after[k] = loginAttempts[k]
        /\ \A k \in DOMAIN loginAttempts :
              now < loginAttempts[k].LockUntil => k \in DOMAIN after
        /\ ENABLED Sweep

\* A sweep has something to remove and something to keep: an entry idle for
\* more than an hour beside a younger one.
C21_Witness ==
    /\ SweepDue # {}
    /\ DOMAIN loginAttempts \ SweepDue # {}
    /\ DOMAIN cleanExpiredLoginAttempts(loginAttempts, now) = DOMAIN loginAttempts \ SweepDue

\* ------------------------------------------------------ GeoIP cache: properties

\* C5: the GeoIP cache never holds more than IPCacheSize entries, for every
\* configured IPCacheSize >= 1 and every interleaving of resolves and cleaner.
C5_CacheWithinSize ==
    Cardinality(DOMAIN ipCache) <= IPCacheSize

\* A full cache from which an entry younger than the TTL was evicted.
C5_Witness ==
    /\ Cardinality(DOMAIN ipCache) = IPCacheSize
    /\ \E a \in PublicIPs \ DOMAIN ipCache :
          /\ lastOkAt[a] > ZeroTime
          /\ now - lastOkAt[a] < IPCacheTTL
          /\ \A g \in Resolvers : geo[g].ip = a => geo[g].pc = "idle"

\* C6 as stated: no lookup is issued for an address less than a TTL after a
\* lookup for it succeeded, whether the resolves run one after the other or
\* concurrently.
C6_OneLookupWithinTTL ==
    [][\A g \in Resolvers :
          (geo[g].pc = "lookup" /\ geo'[g].pc # "lookup")
             => \/ lastOkAt[geo[g].ip] = ZeroTime
                \/ now - lastOkAt[geo[g].ip] >= IPCacheTTL]_vars

\* C6 amended: a resolve that begins while the address is cached and younger
\* than the TTL returns the cached location and issues no lookup; one that
\* begins with the entry absent or at its TTL issues exactly one lookup.
C6_LookupOnlyOnMiss ==
    \A g \in Resolvers :
        /\ geo[g].found = "fresh"
              => /\ geo[g].pc = "idle"
                 /\ geo[g].issued = 0
                 /\ geo[g].ret = ServiceAnswer(geo[g].ip)
        /\ geo[g].found \in {"absent", "expired"}
              => geo[g].issued = (IF geo[g].pc = "lookup" THEN 0 ELSE 1)

\* Two resolves of one address, the second served from the entry the first
\* stored: one lookup in all.
C6_Witness ==
    \E g, h \in Resolvers :
        /\ g # h
        /\ geo[g].ip = geo[h].ip
        /\ geo[g].pc = "idle" /\ geo[h].pc = "idle"
        /\ geo[g].found = "absent" /\ geo[g].issued = 1
        /\ geo[g].ret = ServiceAnswer(geo[g].ip)
        /\ geo[h].found = "fresh" /\ geo[h].issued = 0
        /\ geo[h].ret = geo[g].ret

\* C7: a resolve that finds an entry at or beyond the TTL deletes it and goes
\* on to a fresh lookup instead of returning it, and a lookup that fails
\* returns a sentinel and puts nothing into the cache.
C7_ExpiredEntryNeverReturned ==
    [][\A g \in Resolvers :
          /\ \A ip \in PublicIPs :
                (/\ ResolveBegin(g, ip)
                 /\ ip \in DOMAIN ipCache
                 /\ now - ipCache[ip].CreatedAt >= IPCacheTTL)
                   => /\ ip \notin DOMAIN ipCache'
                      /\ geo'[g].pc = "lookup"
                      /\ geo'[g].ret = NoLocation
          /\ (geo[g].pc = "lookup" /\ geo'[g].pc = "idle")
                => /\ ipCache' = ipCache
                   /\ geo'[g].ret \in {LookupFailed, Unknown}]_vars

\* A resolve found its entry expired, its lookup failed, the address is gone.
C7_Witness ==
    \E g \in Resolvers :
        /\ geo[g].found = "expired"
        /\ geo[g].pc = "idle"
        /\ geo[g].ret \in {LookupFailed, Unknown}
        /\ geo[g].ip \notin DOMAIN ipCache

\* C22: the insertion of a resolved location evicts nothing while the cache is
\* below its capacity; at capacity it evicts exactly one entry, one whose
\* creation time is the smallest among the entries present before, and then
\* stores the new entry.
C22_InsertEvictsOldestAtCapacity ==
    [][\A g \in Resolvers :
          (geo[g].pc = "insert" /\ geo'[g].pc = "idle")
             => LET new == [Location |-> geo[g].ret, CreatedAt |-> now]
                IN  IF Cardinality(DOMAIN ipCache) < IPCacheSize
                    THEN ipCache' = Put(ipCache, geo[g].ip, new)
                    ELSE \E a \in DOMAIN ipCache :
                            /\ \A b \in DOMAIN ipCache :
                                  ipCache[a].CreatedAt <= ipCache[b].CreatedAt
                            /\ ipCache' = Put(Drop(ipCache, {a}), geo[g].ip, new)]_vars

\* A cache of capacity 2 left with the one entry just inserted: the insertion
\* found the cache full, evicted the other address, whose entry was the older
\* one and younger than the TTL, and wrote over the entry of its own.
C22_Witness ==
    /\ IPCacheSize = 2
    /\ \A g \in Resolvers : geo[g].pc = "idle"
    /\ \E a \in PublicIPs :
          /\ DOMAIN ipCache = {a}
          /\ ipCache[a].CreatedAt = now
          /\ \E b \in PublicIPs \ {a} :
                /\ lastOkAt[b] > ZeroTime
                /\ now - lastOkAt[b] < IPCacheTTL

\* C23: a lookup that fails (transport error, undecodable body, status other
\* than success) makes the resolve return an unknown-country sentinel at once
\* and leaves the cache as it is; every entry of the cache was stored after a
\* lookup for its address succeeded, and its location is what the service
\* answered, never a sentinel.
C23_FailedLookupNotCached ==
    /\ [](\A a \in DOMAIN ipCache :
             /\ ipCache[a].Location \notin {Unknown, LookupFailed, LocalNet, NoLocation}
             /\ ipCache[a].Location = ServiceAnswer(a)
             /\ lastOkAt[a] # ZeroTime)
    /\ [][\A g \in Resolvers : \A outcome \in LookupOutcomes \ {"success"} :
             ResolveLookup(g, outcome)
                => /\ geo'[g].pc = "idle"
                   /\ geo'[g].ret.Country = "unknown"
                   /\ geo'[g].ret \in {Unknown, LookupFailed}
                   /\ ipCache' = ipCache]_vars

\* A resolve of an address never looked up with success: it found no entry,
\* its one lookup failed, it returned a sentinel and the address has no entry.
C23_Witness ==
    \E g \in Resolvers :
        /\ geo[g].found = "absent"
        /\ geo[g].pc = "idle"
        /\ geo[g].issued = 1
        /\ geo[g].ret \in {LookupFailed, Unknown}
        /\ lastOkAt[geo[g].ip] = ZeroTime
        /\ geo[g].ip \notin DOMAIN ipCache

\* The addresses the resolve is to take for local: the empty one and those
\* that start with 127., 192.168. or 10.
RecognizedLocal ==
    {ip \in GeoIPs :
        \/ Len(ip) = 0
        \/ Len(ip) = 4 /\ (ip[1] \in {127, 10} \/ <<ip[1], ip[2]>> = <<192, 168>>)}

\* C24: a resolve of a local address returns the fixed local-network result
\* at once, with no lookup issued and cache and lookup record left as they
\* are; no local address is ever a key of the cache.
C24_LocalAddressShortCircuits ==
    /\ [](DOMAIN ipCache \cap RecognizedLocal = {})
    /\ [][\A g \in Resolvers : \A ip \in RecognizedLocal :
             ResolveBegin(g, ip)
                => /\ geo'[g].pc = "idle"
                   /\ geo'[g].ret = LocalNet
                   /\ geo'[g].issued = 0
                   /\ ipCache' = ipCache
                   /\ lastOkAt' = lastOkAt]_vars

\* Two local addresses of different kinds have been resolved to the
\* local-network result while the cache held an entry, which is still there.
C24_Witness ==
    /\ ipCache # << >>
    /\ \E g, h \in Resolvers :
          /\ geo[g].pc = "idle" /\ geo[g].ret = LocalNet /\ geo[g].issued = 0
          /\ geo[h].pc = "idle" /\ geo[h].ret = LocalNet /\ geo[h].issued = 0
          /\ geo[g].ip = <<10, 0, 0, 5>>
          /\ geo[h].ip \in {<<127, 0, 0, 1>>, <<192, 168, 1, 1>>, << >>}

\* C25: no goroutine holds the cache's mutex while its lookup request is in
\* flight.  The mutex is held exactly by a goroutine that stands between a
\* Lock and the Unlock after it, which is during the map lookup and delete,
\* during the evict-and-insert step, and during the cleaner's pass; so while
\* lookups are in flight and nobody is at such a step the mutex is free, and
\* another goroutine can lock it for its cache hit.
C25_MutexNotHeldDuringLookup ==
    /\ \A g \in Resolvers :
          /\ geo[g].pc \in {"lookup", "insert"} => cacheMutex # g
          /\ cacheMutex = g <=> geo[g].pc \in {"check", "store"}
    /\ (\A g \in Resolvers : geo[g].pc \notin {"check", "store"})
          => cacheMutex \in {"free", "cleaner"}
    /\ \A g, h \in Resolvers :
          (geo[g].pc = "lookup" /\ geo[h].pc = "idle" /\ cacheMutex = "free")
             => \A ip \in PublicIPs : ENABLED LockForCheck(h, ip)

\* While the lookup of one goroutine was in flight another was served from
\* the cache: it found a fresh entry and returned its location.
C25_Witness ==
    \E g, h \in Resolvers :
        /\ geo[g].pc = "lookup"
        /\ geo[h].pc = "idle"
        /\ geo[h].found = "fresh"
        /\ geo[h].ret = ServiceAnswer(geo[h].ip)
        /\ cacheMutex = "free"


\* C8: getActiveRelays never returns a pair whose last-active time is 60 seconds
\* or more in the past, and every such pair present when the call starts is
\* absent from the table when it returns; every younger pair is returned and
\* kept as it was.
C8_StalePairsDroppedFreshKept ==
    [][(resp = NoResp /\ resp'.handler = "relays") =>
          /\ \A ev \in resp'.body : now - ev.LastActive < relayWindow
          /\ \A k \in DOMAIN relayMap :
                IF now - relayMap[k].LastActive >= relayWindow
                THEN relayMap[k] \notin resp'.body /\ k \notin DOMAIN relayMap'
                ELSE /\ relayMap[k] \in resp'.body
                     /\ k \in DOMAIN relayMap'
                     /\ relayMap'[k] = relayMap[k]
          /\ DOMAIN relayMap' \subseteq DOMAIN relayMap]_vars

\* A call that returned one pair and dropped another, 60 seconds old to the tick.
C8_Witness ==
    /\ resp.handler = "relays"
    /\ resp.body # {}
    /\ resp.dropped # {}
    /\ \A ev \in resp.body : now - ev.LastActive < relayWindow
    /\ \E k \in resp.dropped : k \notin DOMAIN relayMap

\* ------------------------------------------------------ log tailer: properties

\* The canonical source and destination a forwarding line carries.
PairOfLine(line) == IF line = LogLine12 THEN <<Mac1, Mac2>> ELSE <<Mac2, Mac1>>

\* The tailer has matched the line it read and is back at the read.
Processed(line) == tailer.pc = "matching" /\ tailer.line = line /\ tailer'.pc = "reading"

\* C31: for every log line that matches the forwarding pattern with addresses
\* src and dst, the tailer updates exactly the pair keyed by the canonical
\* src->dst: an existing pair's counter grows by exactly 1 and its last-active
\* time is refreshed, a new pair is inserted with counter 1, every other pair
\* is unchanged; and a pair's counter never decreases while the pair stays in
\* the table.
C31_ForwardingLineUpdatesItsPair ==
    /\ [][\A line \in ForwardingLines :
             Processed(line) =>
                LET key == PairOfLine(line)
                IN  /\ DOMAIN relayMap' = DOMAIN relayMap \cup {key}
                    /\ relayMap'[key].SrcMac = key[1]
                    /\ relayMap'[key].DstMac = key[2]
                    /\ relayMap'[key].LastActive = now
                    /\ relayMap'[key].PktCount =
                          IF key \in DOMAIN relayMap THEN relayMap[key].PktCount + 1 ELSE 1
                    /\ \A k \in DOMAIN relayMap \ {key} : relayMap'[k] = relayMap[k]]_vars
    /\ [][\A k \in DOMAIN relayMap \cap DOMAIN relayMap' :
             relayMap'[k].PktCount >= relayMap[k].PktCount]_vars

\* Both pairs are in the table, one of them observed twice, the second time
\* later than the first.
C31_Witness ==
    /\ tailer.pc = "reading"
    /\ <<Mac2, Mac1>> \in DOMAIN relayMap
    /\ <<Mac1, Mac2>> \in DOMAIN relayMap
    /\ relayMap[<<Mac1, Mac2>>].PktCount = 2
    /\ relayMap[<<Mac1, Mac2>>].LastActive = now
    /\ relayMap[<<Mac2, Mac1>>].LastActive < now

\* A step of the tailer that belongs to a restart: the attach, the sleep, or
\* the read error that leads to the sleep.
RestartStep ==
    /\ tailer' # tailer
    /\ tailer.pc \in {"attach", "sleeping"} \/ tailer'.pc = "sleeping"

\* C32: the log tailer never reaches a terminal state: after every stream-open
\* failure and every read error it sleeps a fixed backoff (5 s, 2 s) and
\* attaches again, so a tailer that has lost its stream always attempts to
\* attach again; a restart leaves the relay table as it was.
C32_TailerAlwaysReattaches ==
    /\ [](tailer.pc \in {"attach", "reading", "matching", "sleeping"})
    /\ [](CASE tailer.pc = "attach" -> ENABLED TailAttach("started")
             [] tailer.pc = "reading" -> ENABLED TailReadError
             [] tailer.pc = "matching" -> TRUE
             [] tailer.pc = "sleeping" -> ENABLED TailWake
             [] OTHER -> FALSE)
    /\ [](tailer.pc = "sleeping" =>
             tailer.sleep = IF tailer.cause = "read error" THEN readBackoff ELSE openBackoff)
    /\ [](tailer.cause # "none" => tailer.pc \in {"sleeping", "attach"})
    /\ (tailer.pc = "sleeping") ~> (tailer.pc = "attach")
    /\ [][RestartStep => relayMap' = relayMap]_vars

\* The tailer is attaching again after a read error, with pairs in the table.
C32_Witness ==
    /\ tailer.pc = "attach"
    /\ tailer.cause = "read error"
    /\ relayMap # << >>

\* C33: a relay pair is removed from the table only by a getActiveRelays call
\* that finds it stale: no step of the clock, of the tailer or of getNodes
\* removes a pair.
C33_OnlyGetActiveRelaysRemoves ==
    [][\A k \in DOMAIN relayMap \ DOMAIN relayMap' :
          /\ resp = NoResp
          /\ resp'.handler = "relays"
          /\ ~relayActive(relayMap[k], now)]_vars

\* getNodes has answered while a stale pair and a pair the tailer refreshed
\* after it went stale are both in the table.
C33_Witness ==
    /\ resp.handler = "nodes"
    /\ \E k, j \in DOMAIN relayMap :
          /\ ~relayActive(relayMap[k], now)
          /\ relayMap[j].LastActive = now

\* C35: a log line that does not match the forwarding pattern leaves the relay
\* table unchanged and does not stop the tailer: it is back at the read, where
\* the next line can be read.
C35_UnmatchedLineSkipped ==
    /\ [](tailer.pc = "reading" => \A line \in OtherLines : ENABLED TailReadLine(line))
    /\ [][\A line \in OtherLines :
             (tailer.pc = "matching" /\ tailer.line = line /\ tailer' # tailer) =>
                /\ relayMap' = relayMap
                /\ tailer'.pc = "reading"
                /\ tailer'.skipped]_vars

\* The line after a skipped one is a forwarding line and is being processed.
C35_Witness ==
    /\ tailer.pc = "matching"
    /\ tailer.skipped
    /\ tailer.line \in ForwardingLines
    /\ relayMap # << >>

\* -------------------------------------------------- node inventory: properties

\* The rows db.Find returns: those not deleted softly.
Persisted == {i \in 1..Len(nodes) : ~nodes[i].DeletedAt}

\* Two rows carry the same virtual address: the same text, or texts that
\* net.ParseIP reads as the same address.
SameVirtualAddress(a, b) ==
    \/ a.IPAddress = b.IPAddress
    \/ ParseIP(a.IPAddress) # NoIP /\ ParseIP(a.IPAddress) = ParseIP(b.IPAddress)

\* No two rows of the table, deleted softly or not, carry the same text in
\* mac_address or in ip_address: the unique indexes hold.
NodeTextsUnique ==
    \A i, j \in 1..Len(nodes) :
        i # j => /\ nodes[i].MacAddress # nodes[j].MacAddress
                 /\ nodes[i].IPAddress # nodes[j].IPAddress
                 /\ nodes[i].ID # nodes[j].ID

\* C40: after any sequence of createNode and deleteNode calls no two persisted
\* nodes share a hardware address or a virtual address, and a createNode that
\* validation rejects leaves the table as it was.
C40_NoTwoNodesShareAnAddress ==
    /\ [](\A i, j \in Persisted :
             i # j => /\ nodes[i].MacAddress # nodes[j].MacAddress
                      /\ ~SameVirtualAddress(nodes[i], nodes[j]))
    /\ [][(resp = NoResp /\ resp'.handler = "createNode" /\ resp'.status = 400)
             => nodes' = nodes]_vars

\* A createNode has answered 200 and the table holds two persisted nodes whose
\* virtual addresses differ as texts and are one address.
C40_Witness ==
    /\ resp.handler = "createNode"
    /\ resp.status = 200
    /\ \E i, j \in Persisted :
          /\ nodes[i].IPAddress # nodes[j].IPAddress
          /\ SameVirtualAddress(nodes[i], nodes[j])

\* The pairs of the table that involve a hardware address, on either side.
PairsOf(mac) == {k \in DOMAIN relayMap : k[1] = mac \/ k[2] = mac}

\* C9: getNodes never reports an entry with connection type relay on the basis
\* of a pair whose last-active time is older than 60 seconds: an entry reported
\* as relay has a pair within the window.
C9_RelayOnlyFromFreshPairs ==
    resp.handler = "nodes" =>
        \A i \in 1..Len(resp.body) :
            resp.body[i].conn_type = "Relay" =>
                \E k \in PairsOf(CanonMac(resp.body[i].mac_address)) :
                    relayActive(relayMap[k], now)

\* C10: in getNodes an online entry whose canonical hardware address is the
\* source or the destination of a pair within the window is reported as
\* relay, and an entry reported as relay is the source or the destination of
\* a pair of the table; every other online entry is P2P.
C10_RelayIffEitherSide ==
    resp.handler = "nodes" =>
        \A i \in 1..Len(resp.body) :
            LET e == resp.body[i]
                mac == CanonMac(e.mac_address)
            IN  e.is_online =>
                   /\ e.conn_type \in {"Relay", "P2P"}
                   /\ (\E k \in PairsOf(mac) : relayActive(relayMap[k], now))
                         => e.conn_type = "Relay"
                   /\ e.conn_type = "Relay" => PairsOf(mac) # {}


\* ------------------------------------------------ management client: properties

\* C11: a GetEdgeInfo call that met a transport fault (dial, write, or a read
\* error while the daemon's answer was missing or incomplete) returns an error
\* and no peer map, never a successful empty or partial map.
C11_FaultGivesErrorNoMap ==
    (qPc = "done" /\ qFault # "none") => (qRet.err /\ qRet.peers = << >>)

\* A call that received the daemon's whole answer and parsed a peer from it.
C11_ParsedWholeAnswer ==
    /\ qPc = "done"
    /\ qFault = "none"
    /\ ~qRet.err
    /\ DOMAIN qRet.peers = {Mac1}
    /\ qRet.peers[Mac1].Internal = IP_10
    /\ qRet.peers[Mac1].LastSeen = 7

\* The lines of the text a finished query received, each with its newline.
ReceivedLines ==
    LET lines == SplitChar(qBuf, "\n")
    IN  [i \in 1..(Len(lines) - 1) |-> lines[i] \o <<"\n">>]

\* A query has returned a map built from the text it received.
Parsed == qPc = "done" /\ ~qRet.err

\* Line i lies inside a supernodes or federation section: the nearest header
\* above it is a SUPERNODES or a FEDERATION header.
InExcludedSection(lines, i) ==
    \E j \in 1..(i - 1) :
        /\ lines[j] \in {LineSupernodes, LineFederation}
        /\ \A k \in (j + 1)..(i - 1) :
              lines[k] \notin {LineSupernodes, LineForward, LineFederation}

\* "8.8.8.8:40000"
External1 == <<"8",".","8",".","8",".","8",":","4","0","0","0","0">>
\* "1.1.1.1:40002"
External3 == <<"1",".","1",".","1",".","1",":","4","0","0","0","2">>

\* What the two peer lines say, read by eye: field 2, field 4 and the number
\* in the last field, 0 for the last field " x".
RecordOfLine(line) ==
    IF line = LinePeer1
    THEN [Internal |-> IP_10, External |-> External1, LastSeen |-> 7]
    ELSE [Internal |-> IP_1, External |-> External3, LastSeen |-> 0]

\* The records of a map without their keys.
RecordsIn(peers) ==
    {[Internal |-> peers[m].Internal, External |-> peers[m].External,
      LastSeen |-> peers[m].LastSeen] : m \in DOMAIN peers}

\* C26: the parser makes no record from a line inside a supernodes or
\* federation section, also when the line has a MAC and 5 fields, and makes
\* one from every peer line outside such sections.
C26_NoRecordFromExcludedSections ==
    Parsed =>
        LET lines == ReceivedLines
            outside == {i \in 1..Len(lines) :
                          /\ lines[i] \in {LinePeer1, LinePeer3}
                          /\ ~InExcludedSection(lines, i)}
        IN  RecordsIn(qRet.peers) = {RecordOfLine(lines[i]) : i \in outside}

\* A peer line, a SUPERNODES header and a peer line below it were received:
\* the map has the record of the first line only.
C26_Witness ==
    /\ Parsed
    /\ qBuf = LinePeer3 \o LineSupernodes \o LinePeer1
    /\ RecordsIn(qRet.peers) = {RecordOfLine(LinePeer3)}

C28_KeysCanonical ==
    Parsed =>
        \A m \in DOMAIN qRet.peers :
            /\ Len(m) = 12
            /\ \A i \in 1..Len(m) :
                  m[i] \in {"0", "1", "2", "3", "4", "5", "6", "7", "8", "9",
                            "A", "B", "C", "D", "E", "F"}
            /\ qRet.peers[m].Mac = m

\* The colon-separated address of a peer line became a canonical key.
C28_Witness ==
    /\ Parsed
    /\ qBuf = LinePeer1
    /\ DOMAIN qRet.peers = {Mac1}

\* C29: GetOnlineMacs returns an error exactly when GetEdgeInfo returned one
\* to it; otherwise its map has the keys of GetEdgeInfo's map, each with the
\* last-seen value of its record.
C29_OnlineMacsFollowEdgeInfo ==
    qPc = "macs" =>
        /\ qMacs.err <=> qRet.err
        /\ ~qMacs.err =>
              /\ DOMAIN qMacs.macs = DOMAIN qRet.peers
              /\ \A m \in DOMAIN qMacs.macs : qMacs.macs[m] = qRet.peers[m].LastSeen

\* GetOnlineMacs returned the key and the last-seen value of a peer.
C29_Witness ==
    /\ qPc = "macs"
    /\ ~qMacs.err
    /\ DOMAIN qMacs.macs = {Mac1}
    /\ qMacs.macs[Mac1] = 7

\* C30: a query is not held in its read loop beyond the session deadline,
\* whatever the daemon sends: no read returns a datagram later than that.
C30_QueryEndsWithinSessionDeadline ==
    qPc = "read" => qLastRead <= sessionDeadline

\* ------------------------------------------------------ node listing: properties

\* The hardware addresses of the persisted nodes, canonical.
MappedMacs == {CanonMac(nodes[i].MacAddress) : i \in 1..Len(nodes)}

\* The entries of the listing that a predicate selects.
EntriesWhere(P(_)) == {i \in 1..Len(resp.body) : P(resp.body[i])}

\* The location texts an online entry can carry: the local-network result, the
\* service's answer for its external address, or a sentinel of a failed lookup.
LocationTexts(e) ==
    LET locs == {LocalNet, ServiceAnswer(e.external_ip), LookupFailed, Unknown}
    IN  IF e.is_mapped
        THEN {l.Country \o " " \o l.City \o " (" \o l.ISP \o ")" : l \in locs}
        ELSE {l.Country \o " " \o l.City : l \in locs}

SentinelTexts ==
    {l.Country \o " " \o l.City \o " (" \o l.ISP \o ")" : l \in {LookupFailed, Unknown}}

\* C12: no failure aborts getNodes.  The listing always has one entry per
\* persisted node and one per unmapped live peer; when GetEdgeInfo returned an
\* error every entry is a persisted node marked offline; an online entry
\* carries a location text, which after a failed lookup is a sentinel.
C12_FailuresNeverAbortListing ==
    resp.handler = "nodes" =>
        /\ Len(resp.body) = Len(nodes) + Cardinality(DOMAIN resp.edges \ MappedMacs)
        /\ \A n \in 1..Len(nodes) :
              Cardinality(EntriesWhere(LAMBDA e : e.is_mapped /\ e.id = nodes[n].ID)) = 1
        /\ resp.err =>
              \A i \in 1..Len(resp.body) : resp.body[i].is_mapped /\ ~resp.body[i].is_online
        /\ \A i \in 1..Len(resp.body) :
              resp.body[i].is_online => resp.body[i].location \in LocationTexts(resp.body[i])

\* A listing after a failed lookup: one entry with a sentinel location, another
\* online entry beside it, every node listed.
C12_Witness ==
    /\ resp.handler = "nodes"
    /\ ~resp.err
    /\ Len(resp.body) = 3
    /\ \E i, j \in 1..Len(resp.body) :
          /\ i # j
          /\ resp.body[i].location \in SentinelTexts
          /\ resp.body[j].is_online
          /\ resp.body[j].location \notin SentinelTexts


\* C15: for every key of the live peer map that is no persisted node's
\* canonical hardware address the listing has exactly one entry with
\* is_mapped = false; it is online and carries the peer's reported internal
\* address.  A peer that matches a persisted node gets no such entry.
C15_OneEntryPerUnmappedPeer ==
    resp.handler = "nodes" =>
        /\ \A mac \in DOMAIN resp.edges :
              LET own == EntriesWhere(LAMBDA e : ~e.is_mapped /\ e.mac_address = mac)
              IN  IF mac \in MappedMacs THEN own = {}
                  ELSE /\ Cardinality(own) = 1
                       /\ \A i \in own :
                             /\ resp.body[i].is_online
                             /\ resp.body[i].ip_address = resp.edges[mac].Internal
        /\ \A i \in EntriesWhere(LAMBDA e : ~e.is_mapped) :
              resp.body[i].mac_address \in DOMAIN resp.edges \ MappedMacs

\* A listing with a live peer no node matches beside one a node matches.
C15_Witness ==
    /\ resp.handler = "nodes"
    /\ DOMAIN resp.edges = {Mac1, Mac3}
    /\ \E i \in 1..Len(resp.body) :
          /\ ~resp.body[i].is_mapped
          /\ resp.body[i].mac_address = Mac3
          /\ resp.body[i].ip_address = IP_1

\* C16: the listing has exactly one entry per persisted node, online if and
\* only if the node's canonical hardware address is a key of the live peer
\* map; an offline entry has empty external address, location and connection
\* type, and a call touches the GeoIP cache only for the external addresses
\* of online entries.
C16_OneEntryPerNode ==
    [][(resp = NoResp /\ resp'.handler = "nodes") =>
          LET body == resp'.body
              mapped == {i \in 1..Len(body) : body[i].is_mapped}
              consulted == {body[i].external_ip : i \in {j \in 1..Len(body) : body[j].is_online}}
          IN  /\ \A n \in 1..Len(nodes) :
                    Cardinality({i \in mapped : body[i].id = nodes[n].ID}) = 1
              /\ Cardinality(mapped) = Len(nodes)
              /\ \A n \in 1..Len(nodes) : \A i \in mapped :
                    body[i].id = nodes[n].ID =>
                       /\ body[i].is_online
                             <=> CanonMac(nodes[n].MacAddress) \in DOMAIN resp'.edges
                       /\ ~body[i].is_online =>
                             /\ body[i].external_ip = << >>
                             /\ body[i].location = ""
                             /\ body[i].conn_type = ""
              /\ \A ip \in DOMAIN ipCache' :
                    (ip \notin DOMAIN ipCache \/ ipCache'[ip] # ipCache[ip])
                       => ip \in consulted
              /\ consulted = {} => ipCache' = ipCache]_vars

\* A listing with one node online, located by a lookup, and the other offline.
C16_Witness ==
    /\ resp.handler = "nodes"
    /\ \E i, j \in 1..Len(resp.body) :
          /\ resp.body[i].is_mapped /\ resp.body[i].is_online
          /\ resp.body[i].external_ip \in DOMAIN ipCache
          /\ resp.body[j].is_mapped /\ ~resp.body[j].is_online
          /\ resp.body[j].location = ""

\* ------------------------------------------------------------ the sort: properties

Parses(e) == ParseIP(e.ip_address) # NoIP

\* C13: in the sorted listing every entry whose virtual address does not parse
\* (the empty string included) comes after every entry whose address parses,
\* and the unparsable ones are in lexicographic order among themselves.
C13_UnparsableLast ==
    sortPc = "sorted" =>
        \A i, j \in 1..Len(sortRes) :
            i < j =>
               /\ ~(~Parses(sortRes[i]) /\ Parses(sortRes[j]))
               /\ (~Parses(sortRes[i]) /\ ~Parses(sortRes[j]))
                     => ~StrLess(sortRes[j].ip_address, sortRes[i].ip_address)

\* C14: when every virtual address parses, the sorted listing is in ascending
\* numeric order of the 16-byte form of the addresses, not in string order.
C14_NumericOrderWhenAllParse ==
    (sortPc = "sorted" /\ \A i \in 1..Len(sortRes) : Parses(sortRes[i])) =>
        \A i, j \in 1..Len(sortRes) :
            i < j => CompareIP(ParseIP(sortRes[i].ip_address),
                               ParseIP(sortRes[j].ip_address)) <= 0

\* 10.0.0.1, 10.0.0.2 and 10.0.0.10 come out as .1, .2, .10.
C14_Witness ==
    /\ sortPc = "sorted"
    /\ sortRes = <<[ip_address |-> IP_1], [ip_address |-> IP_2], [ip_address |-> IP_10]>>

\* The goroutine whose statement a step executes.
Stepped(g) == gor'[g] # gor[g]

AtAccess(g) == Touches(gor[g].fn, gor[g].pc) # "none"
HoldsItsMutex(g) == Holder(Touches(gor[g].fn, gor[g].pc)) = g
AtHitReturn(g) == gor[g].fn = "getIPLocation" /\ gor[g].pc = "hit"
BetweenEvictAndInsert(g) == gor[g].fn = "recordLoginFail" /\ gor[g].pc = "insert"

\* No statement of another goroutine touches the login table between the
\* overflow eviction of a recordLoginFail call and the insert it makes room for.
EvictAndInsertInOneSection ==
    [][\A g, h \in Goroutines :
          (BetweenEvictAndInsert(g) /\ h # g /\ Stepped(h))
             => Touches(gor[h].fn, gor[h].pc) # "loginMutex"]_vars

\* C34 as stated: every statement that reads or writes the login table, the
\* GeoIP cache or the relay table is executed by a goroutine holding that
\* table's mutex, and the overflow eviction and its insert are one critical
\* section with no other operation on the login table in between.
C34_EveryAccessUnderItsMutex ==
    /\ [](\A g \in Goroutines : AtAccess(g) => HoldsItsMutex(g))
    /\ EvictAndInsertInOneSection

\* C34 amended: every statement that reads or writes the login table or the
\* relay table, every statement that reads or writes the GeoIP cache's map,
\* and every step that changes any of the three tables, is executed by a
\* goroutine holding that table's mutex; the one access outside is line 233,
\* which reads the Location of the entry found under the lock after the Unlock
\* of line 232; the overflow eviction and its insert are one critical section.
C34_EveryAccessButTheHitReturn ==
    /\ [](\A g \in Goroutines :
             /\ (AtAccess(g) /\ ~AtHitReturn(g)) => HoldsItsMutex(g)
             /\ AtHitReturn(g) => (cacheMutex # g /\ Len(gor[g].entry) = 1))
    /\ [][/\ loginAttempts' # loginAttempts => (loginMutex \in Goroutines /\ Stepped(loginMutex))
          /\ ipCache' # ipCache => (cacheMutex \in Goroutines /\ Stepped(cacheMutex))
          /\ relayMap' # relayMap => (relayMutex \in Goroutines /\ Stepped(relayMutex))]_vars
    /\ EvictAndInsertInOneSection

\* A recordLoginFail call stands between its eviction, which has left one
\* record of a full table, and its insert, while the sweeper waits at the
\* Lock of its pass over the same table; and the getIPLocation call of the
\* other handler has reached line 233.
C34_Witness ==
    \E g, h \in Handlers :
       /\ BetweenEvictAndInsert(g)
       /\ loginMutex = g
       /\ Cardinality(DOMAIN loginAttempts) = maxLoginRecords - 1
       /\ gor["startLoginCleanupRoutine"].pc = "lock"
       /\ AtHitReturn(h)

\* A goroutine that waits at a Lock whose mutex is taken.
WaitsFor(g, m) == LockStmt(gor[g].fn, gor[g].pc) = m /\ Holder(m) # "free"

\* The function has returned: a handler or daemon between calls, or getNodes
\* after a getIPLocation call.
Returned(g) == gor[g].pc \in {"idle", "peers"}

\* C36: no goroutine holds two of the mutexes at once, a goroutine whose
\* function has returned holds none, and no deadlock is reachable: every
\* goroutine inside a call can take a step, or waits for a mutex whose holder
\* can take a step.
C36_OneMutexAtATimeAndNoDeadlock ==
    \A g \in Goroutines :
       /\ Cardinality(Held(g)) <= 1
       /\ Returned(g) => Held(g) = {}
       /\ \A m \in Mutexes : Holder(m) \in Goroutines \cup {"free"}
       /\ gor[g] # Idle =>
             \/ ENABLED GoStep(g)
             \/ \E m \in Mutexes : WaitsFor(g, m) /\ ENABLED GoStep(Holder(m))

\* All three mutexes are held, each by another goroutine, while a fourth
\* goroutine waits for one of them and getNodes has returned from a call of
\* getIPLocation before.
C36_Witness ==
    /\ loginMutex \in Handlers
    /\ cacheMutex \in Handlers
    /\ gor[cacheMutex].pc = "store"
    /\ relayMutex = "startLogAnalyzer"
    /\ WaitsFor("startIPCacheCleaner", "cacheMutex")
    /\ WaitsFor("startLoginCleanupRoutine", "loginMutex")
    /\ ipCache # << >>

====
